---- MODULE Spec2Model ----
(***************************************************************************)
(* Model of the schema visualizer's pool lifecycle and introspection path: *)
(* schema.Introspector (pool, dbName, mu), api.Handler (poolCloseMu and    *)
(* the switch / list / schema handlers) and main's shutdown.               *)
(***************************************************************************)
EXTENDS Integers, Sequences, FiniteSets, TLC

\* ---------------------------------------------------------------- bounds
NumReqs == 2          \* concurrent request goroutines
MaxPools == 2         \* candidate pools pgxpool.New may create after start
QueryTimeouts == {2, 3}   \* configured QUERY_TIMEOUT values (seconds)
MaxTables == 3        \* largest number of tables of an introspected database
MaxLen == 3           \* longest enumerated identifier (runes)
MaxClock == 1         \* latest clock reading at which a call starts (seconds)
MaxDeadline == 5      \* latest caller deadline (seconds)
MaxNow == 7           \* latest reading of the middleware's clock (time units)
MaxAllowed == 5       \* most requests the limiter has let through in one window
limit == 2            \* RateLimiter.limit: requests per window of the model
window == 2           \* RateLimiter.window (time units)
maxEntries == 2       \* RateLimiter.maxEntries: addresses the limiter keeps
rotationInterval == 3 \* CSRFMiddleware.rotationInterval (time units)
gracePeriod == 2      \* CSRFMiddleware.gracePeriod (time units)

\* ------------------------------------------------------ program constants
MinCloseTimeout == 5  \* "minimum 5 seconds" floor of the close wait

ErrMissingField    == "MISSING_FIELD"
ErrDatabaseError   == "DATABASE_ERROR"
ErrConnectionError == "CONNECTION_ERROR"
ErrUnknownDatabase == "UNKNOWN_DATABASE"
ErrSchemaError     == "SCHEMA_ERROR"
OK                 == "OK"

\* ------------------------------------------------------------ environment
Reqs == 1..NumReqs
NoReq == 0
NoPool == -1
InitialPool == 0
InitialDb == "b"

\* Databases the server reports in pg_database (user databases only).
ServerDatabases == <<"a", "b">>
\* Names a switch request body may carry: empty, known, unknown.
RequestNames == {"", "a", "zz"}

\* Databases used to vary the table count: "n0" has no table, "n3" three.
SchemaDatabases == {"n" \o ToString(n) : n \in 0..MaxTables}

\* Base tables of the public schema of each database, ORDER BY table_name.
TablesOf(db) ==
    IF db = "b" THEN <<"t1", "t2">>
    ELSE IF db \in SchemaDatabases
            THEN LET n == CHOOSE n \in 0..MaxTables : db = "n" \o ToString(n)
                 IN [k \in 1..n |-> "t" \o ToString(k)]
            ELSE <<>>
\* Columns / foreign keys of each table, keyed by table name, per database.
ColumnsOf(db) == [t \in {TablesOf(db)[k] : k \in 1..Len(TablesOf(db))} |-> <<[Name |-> "id", Db |-> db]>>]
ForeignKeysOf(db) == [t \in {TablesOf(db)[k] : k \in 1..Len(TablesOf(db))} |-> <<>>]

NoResp == [req |-> NoReq, kind |-> "none", code |-> "none"]
Nil == "nil"            \* a nil slice, map or pointer
NoCommit == [pool |-> NoPool, name |-> ""]

\* Locals of a request goroutine that is not inside a handler.
NoLocals == [handler |-> "none",      \* handler being run
             reqName |-> "",          \* handleSwitchDatabase: req.Name
             cand |-> NoPool,         \* handleSwitchDatabase: pool
             oldPool |-> NoPool,      \* handleSwitchDatabase: oldPool
             waited |-> 0,            \* seconds spent in the select
             borrowed |-> NoPool,     \* ListDatabases / GetSchema: pool
             queries |-> <<>>,        \* round trips issued, in order
             tables |-> Nil,          \* GetSchema: tables
             columnsByTable |-> Nil]  \* GetSchema: columnsByTable

VARIABLES
    phase,        \* "running" until main returns, then "exited"
    queryTimeout, \* config.QueryTimeout / Introspector.queryTimeout
    pool,         \* Introspector.pool
    dbName,       \* Introspector.dbName
    mu,           \* Introspector.mu: [writer, readers]
    poolCloseMu,  \* Handler.poolCloseMu: holder or NoReq
    poolDb,       \* every pool created so far -> database it connects to
    closeCalls,   \* pool -> number of times Close was invoked on it
    closer,       \* pool -> state of the handler's closing goroutine
    pc,           \* request goroutine -> position in its handler
    loc,          \* request goroutine -> locals of the running handler
    resp,         \* the response written by the step just taken, if any
    swapLog,      \* history: SetPool calls, in order
    closeLog,     \* history: pools the switch handler started a Close on
    committed,    \* history: pair of the last successful switch response
    clock,        \* time.Now() of the middleware, in time units
    csrf,         \* Handler.csrf: tokens, lastRotation, the rotation ticker
    rateLimiter,  \* Handler.rateLimiter: requests map, the cleanup ticker
    issued,       \* history: tokens generated, each with the time it became current
    allowLog      \* history: Allow calls that returned true within the last window

vars == <<phase, queryTimeout, pool, dbName, mu, poolCloseMu, poolDb,
          closeCalls, closer, pc, loc, resp, swapLog, closeLog, committed,
          clock, csrf, rateLimiter, issued, allowLog>>

\* The state of the request-security middleware.
mwVars == <<clock, csrf, rateLimiter, issued, allowLog>>

\* generateSecureToken: the n-th token the process draws from crypto/rand;
\* 32 random bytes do not repeat.
generateSecureToken(n) == "tok" \o ToString(n)

\* NewHandler: NewCSRFMiddleware() draws the first token, sets lastRotation
\* and starts the rotation ticker; NewRateLimiter makes the empty map and
\* starts the cleanup ticker.
NewHandler ==
    /\ clock = 0
    /\ csrf = [currentToken |-> generateSecureToken(1), previousToken |-> "",
               lastRotation |-> 0, ticker |-> rotationInterval]
    /\ rateLimiter = [requests |-> [ip \in {} |-> <<>>], ticker |-> window]
    /\ issued = <<[token |-> generateSecureToken(1), at |-> 0]>>
    /\ allowLog = <<>>

\* Handles pgxpool.New can hand out: the initial pool and MaxPools more.
PoolIds == 0..MaxPools

Pools == DOMAIN poolDb

Contains(seq, x) == \E k \in 1..Len(seq) : seq[k] = x

\* CloseTimeout with the comparison the wrong way round (5 s as a ceiling).
CloseTimeout_Ceiling(qt) == IF qt * 2 > MinCloseTimeout THEN MinCloseTimeout ELSE qt * 2

\* timeout := QueryTimeout * 2; if timeout < 5s { timeout = 5s }
CloseTimeout(qt) == IF qt * 2 < MinCloseTimeout THEN MinCloseTimeout ELSE qt * 2

\* pgxpool: a pool on which Close has been invoked rejects every Acquire.
PoolClosed(p) == closeCalls[p] > 0

\* Outcomes of pool.Query: an error on a closed pool, otherwise the round
\* trip either succeeds or fails (timeout, network).
QueryOutcomes(p) == IF PoolClosed(p) THEN {FALSE} ELSE {TRUE, FALSE}

\* Texts of the errors the driver returns for a failed round trip or connect.
DbErrorTexts == {"context deadline exceeded", "FATAL: password authentication failed"}

\* The error of a failed pool.Query: pgxpool's own on a closed pool.
QueryErrors(p) == IF PoolClosed(p) THEN {"closed pool"} ELSE DbErrorTexts

\* main up to ListenAndServe: the initial pool is created and pinged, and
\* NewIntrospector(pool, cfg.CurrentDatabase(), cfg.QueryTimeout) holds it.
Init ==
    /\ phase = "running"
    /\ queryTimeout \in QueryTimeouts
    /\ pool = InitialPool
    /\ dbName = InitialDb
    /\ mu = [writer |-> NoReq, readers |-> {}]
    /\ poolCloseMu = NoReq
    /\ poolDb = (InitialPool :> InitialDb)
    /\ closeCalls = (InitialPool :> 0)
    /\ closer = (InitialPool :> "none")
    /\ pc = [r \in Reqs |-> "idle"]
    /\ loc = [r \in Reqs |-> NoLocals]
    /\ resp = NoResp
    /\ swapLog = <<>>
    /\ closeLog = <<>>
    /\ committed = NoCommit
    /\ NewHandler

\* --------------------------------------------------- Introspector.mu
\* i.mu.RLock() returns at once unless a writer holds the lock.
CanRLock == mu.writer = NoReq

\* i.mu.Lock()
Lock(r) ==
    /\ mu.writer = NoReq
    /\ mu.readers = {}
    /\ mu' = [mu EXCEPT !.writer = r]

\* i.mu.Unlock()
Unlock(r) == mu' = [mu EXCEPT !.writer = NoReq]

\* Variable groups for UNCHANGED.
pairVars == <<pool, dbName>>
poolVars == <<poolDb, closeCalls, closer>>
histVars == <<swapLog, closeLog, committed>>

At(r, at) == phase = "running" /\ pc[r] = at

\* The handler goes on to its next step without writing a response.
Goto(r, at) == pc' = [pc EXCEPT ![r] = at] /\ resp' = NoResp

\* respondJSON / respondError followed by the handler's return: the response
\* is written and the handler's locals go out of scope.
RespondAs(r, h, body) ==
    /\ pc' = [pc EXCEPT ![r] = "idle"]
    /\ resp' = [req |-> r, kind |-> h] @@ body

Respond(r, body) == RespondAs(r, loc[r].handler, body)

Return(r) == loc' = [loc EXCEPT ![r] = NoLocals]

\* fmt.Errorf("...: %w", err): the text of the wrapped error follows the prefix.
Errorf(prefix, err) == prefix \o ": " \o err

\* respondError putting the internal error's text into the client message.
respondError_SendsCause(code, clientMessage, internalErr) ==
    [code |-> code,
     message |-> IF internalErr = Nil THEN clientMessage ELSE clientMessage \o ": " \o internalErr,
     logged |-> internalErr]

\* respondError: log.Printf of the internal error server-side, and the body
\* apiError{Code: code, Message: clientMessage} to the client.
respondError(code, clientMessage, internalErr) ==
    [code |-> code, message |-> clientMessage, logged |-> internalErr]

\* ------------------------------------------- getPool / CurrentDatabase
\* getPool: i.mu.RLock(); defer i.mu.RUnlock(); return i.pool.  The value
\* returned is the field as it is while the read lock is held.
getPool == pool

\* i.mu.RLock()
RLock(r) == CanRLock /\ mu' = [mu EXCEPT !.readers = @ \cup {r}]

\* i.mu.RUnlock()
RUnlock(r) == mu' = [mu EXCEPT !.readers = @ \ {r}]

\* CurrentDatabase: i.mu.RLock(); defer i.mu.RUnlock(); return i.dbName
CurrentDatabase == dbName

\* ---------------------------------------------------- handler entries
\* A handler starts on an idle request goroutine and runs into the getPool
\* of its first Introspector call, through its i.mu.RLock() (decoding and
\* withTimeout touch nothing shared).
Begin(r, h, name) ==
    /\ At(r, "idle")
    /\ RLock(r)
    /\ loc' = [loc EXCEPT ![r] = [NoLocals EXCEPT !.handler = h, !.reqName = name]]
    /\ Goto(r, "getPool")

\* handleSwitchDatabase: decode, the empty-name check, ListDatabases' getPool.
handleSwitchDatabase(r) ==
    \E name \in RequestNames :
        /\ IF name = ""
              THEN /\ At(r, "idle")
                   /\ RespondAs(r, "switch", respondError(ErrMissingField, "Database name is required", Nil))
                   /\ UNCHANGED <<loc, mu>>
              ELSE Begin(r, "switch", name)
        /\ UNCHANGED <<phase, queryTimeout, mwVars, pairVars, poolCloseMu, poolVars, histVars>>

\* handleListDatabases: ListDatabases' getPool.
handleListDatabases(r) ==
    /\ Begin(r, "list", "")
    /\ UNCHANGED <<phase, queryTimeout, mwVars, pairVars, poolCloseMu, poolVars, histVars>>

\* handleGetSchema: GetSchema's getPool.
handleGetSchema(r) ==
    /\ Begin(r, "schema", "")
    /\ UNCHANGED <<phase, queryTimeout, mwVars, pairVars, poolCloseMu, poolVars, histVars>>

\* The round trip that follows getPool in each caller.
AfterGetPool(r) ==
    IF loc[r].handler = "schema" THEN "getAllTables"
    ELSE IF loc[r].handler \in {"switch", "list"} THEN "ListDatabases"
    ELSE "Exec"

\* getPool with the read lock kept by the caller for its round trip.
getPool_HeldByCaller(r) ==
    /\ At(r, "getPool")
    /\ loc' = [loc EXCEPT ![r].borrowed = getPool]
    /\ Goto(r, AfterGetPool(r))
    /\ UNCHANGED <<phase, queryTimeout, mwVars, pairVars, mu, poolCloseMu, poolVars, histVars>>

\* getPool returns: the field is copied out and the deferred RUnlock runs;
\* the caller goes on to its round trip with the copy.
getPool_Return(r) ==
    /\ At(r, "getPool")
    /\ loc' = [loc EXCEPT ![r].borrowed = getPool]
    /\ RUnlock(r)
    /\ Goto(r, AfterGetPool(r))
    /\ UNCHANGED <<phase, queryTimeout, mwVars, pairVars, poolCloseMu, poolVars, histVars>>

\* QueryPool with every helper of GetSchema calling i.getPool() itself.
QueryPool_Current(r) == IF loc[r].handler = "schema" THEN getPool ELSE loc[r].borrowed

\* The pool a round trip runs on: the local pool of ListDatabases, the pool
\* argument GetSchema passes to getAllTables, getAllColumns, getAllForeignKeys.
QueryPool(r) == loc[r].borrowed

\* Issue with the column query sent once per table (the N+1 pattern).
Issue_PerTable(r, q) ==
    IF q = "columns"
       THEN loc[r].queries \o [k \in 1..Len(loc[r].tables) |-> [q |-> q, pool |-> loc[r].borrowed]]
       ELSE Append(loc[r].queries, [q |-> q, pool |-> loc[r].borrowed])

\* A round trip of kind q on the borrowed pool is recorded.
Issue(r, q) == Append(loc[r].queries, [q |-> q, pool |-> QueryPool(r)])

\* ------------------------------------------------------ ListDatabases
\* allowed with the comparison left out: every name passes.
allowed_Always(databases, name) == TRUE

\* allowed := false; for _, db := range databases { if db == req.Name {...} }
allowed(databases, name) == Contains(databases, name)

\* pool.Query of ListDatabases and what each caller does with the result.
ListDatabases(r) ==
    /\ At(r, "ListDatabases")
    /\ \E ok \in QueryOutcomes(loc[r].borrowed) :
          IF ~ok
             THEN /\ \E e \in QueryErrors(loc[r].borrowed) :
                        Respond(r, respondError(ErrDatabaseError,
                            IF loc[r].handler = "switch" THEN "Failed to validate database"
                                                         ELSE "Failed to list databases",
                            Errorf("failed to list databases", e)))
                  /\ Return(r)
             ELSE IF loc[r].handler = "list"
                     THEN /\ Goto(r, "CurrentDatabase")
                          /\ loc' = [loc EXCEPT ![r].queries = Issue(r, "databases")]
                     ELSE IF allowed(ServerDatabases, loc[r].reqName)
                             THEN /\ Goto(r, "NewPool")
                                  /\ loc' = [loc EXCEPT ![r].borrowed = NoPool]
                             ELSE /\ Respond(r, respondError(ErrUnknownDatabase, "Database not found", Nil))
                                  /\ Return(r)
    /\ UNCHANGED <<phase, queryTimeout, mwVars, pairVars, mu, poolCloseMu, poolVars, histVars>>

\* handleListDatabases after ListDatabases returned: CurrentDatabase() and
\* the response, made of the list obtained through the borrowed pool and the
\* name read now.
respondDatabases(r) ==
    /\ At(r, "CurrentDatabase")
    /\ CanRLock
    /\ Respond(r, [code |-> OK, databases |-> ServerDatabases, current |-> CurrentDatabase,
                   via |-> loc[r].borrowed])
    /\ Return(r)
    /\ UNCHANGED <<phase, queryTimeout, mwVars, pairVars, mu, poolCloseMu, poolVars, histVars>>

\* ---------------------------------------------------------- GetSchema
\* GetSchema without the empty-database return.
NoTables_Never(ts) == FALSE

\* if len(tables) == 0 { return &Schema{Tables: []Table{}}, nil }
NoTables(ts) == Len(ts) = 0

\* tables[idx].Columns = columnsByTable[tableName] (a missing key gives nil),
\* tables[idx].ForeignKeys = fksByTable[tableName]
Assemble(ts, cols, fks) ==
    [k \in 1..Len(ts) |->
        [Name |-> ts[k].Name,
         Columns |-> IF ts[k].Name \in DOMAIN cols THEN cols[ts[k].Name] ELSE Nil,
         ForeignKeys |-> IF ts[k].Name \in DOMAIN fks THEN fks[ts[k].Name] ELSE Nil]]

schemaError(err) == respondError(ErrSchemaError, "Failed to load schema", err)

\* Query 1 (getAllTables) and the empty-database return.
getAllTables(r) ==
    /\ At(r, "getAllTables")
    /\ \E ok \in QueryOutcomes(QueryPool(r)) :
          LET db == poolDb[QueryPool(r)]
              ts == [k \in 1..Len(TablesOf(db)) |->
                        [Name |-> TablesOf(db)[k], Columns |-> Nil, ForeignKeys |-> Nil]]
          IN IF ~ok
                THEN /\ \E e \in QueryErrors(QueryPool(r)) :
                           Respond(r, schemaError(Errorf("failed to get tables", e)))
                     /\ Return(r)
                ELSE IF NoTables(ts)
                        THEN /\ Respond(r, [code |-> OK, schema |-> [Tables |-> <<>>],
                                            queries |-> Issue(r, "tables")])
                             /\ Return(r)
                        ELSE /\ Goto(r, "getAllColumns")
                             /\ loc' = [loc EXCEPT ![r].queries = Issue(r, "tables"),
                                                   ![r].tables = ts]
    /\ UNCHANGED <<phase, queryTimeout, mwVars, pairVars, mu, poolCloseMu, poolVars, histVars>>

\* Query 2 (getAllColumns).
getAllColumns(r) ==
    /\ At(r, "getAllColumns")
    /\ \E ok \in QueryOutcomes(QueryPool(r)) :
          IF ~ok
             THEN /\ \E e \in QueryErrors(QueryPool(r)) :
                        Respond(r, schemaError(Errorf("failed to get columns", e)))
                  /\ Return(r)
             ELSE /\ Goto(r, "getAllForeignKeys")
                  /\ loc' = [loc EXCEPT ![r].queries = Issue(r, "columns"),
                                        ![r].columnsByTable = ColumnsOf(poolDb[QueryPool(r)])]
    /\ UNCHANGED <<phase, queryTimeout, mwVars, pairVars, mu, poolCloseMu, poolVars, histVars>>

\* Query 3 (getAllForeignKeys), the assembly loop and the response.
getAllForeignKeys(r) ==
    /\ At(r, "getAllForeignKeys")
    /\ \E ok \in QueryOutcomes(QueryPool(r)) :
          IF ~ok
             THEN \E e \in QueryErrors(QueryPool(r)) :
                     Respond(r, schemaError(Errorf("failed to get foreign keys", e)))
             ELSE Respond(r, [code |-> OK,
                              schema |-> [Tables |-> Assemble(loc[r].tables, loc[r].columnsByTable,
                                                              ForeignKeysOf(poolDb[QueryPool(r)]))],
                              queries |-> Issue(r, "foreignKeys")])
    /\ Return(r)
    /\ UNCHANGED <<phase, queryTimeout, mwVars, pairVars, mu, poolCloseMu, poolVars, histVars>>

\* ----------------------------------------- handleSwitchDatabase, connect
connectionError(msg, err) == respondError(ErrConnectionError, msg, err)

\* The next pool handle pgxpool.New hands out.
FreshPool == Cardinality(Pools)

\* pgxpool.New returns an error: no pool exists.
NewPoolFail(r) ==
    /\ At(r, "NewPool")
    /\ \E e \in DbErrorTexts : Respond(r, connectionError("Failed to connect to database", e))
    /\ Return(r)
    /\ UNCHANGED <<phase, queryTimeout, mwVars, pairVars, mu, poolCloseMu, poolVars, histVars>>

\* NewPoolOk with h.poolCloseMu taken before the candidate is pinged.
NewPoolOk_UnderCloseLock(r) ==
    /\ At(r, "NewPool")
    /\ FreshPool <= MaxPools
    /\ poolCloseMu = NoReq
    /\ poolCloseMu' = r
    /\ poolDb' = poolDb @@ (FreshPool :> loc[r].reqName)
    /\ closeCalls' = closeCalls @@ (FreshPool :> 0)
    /\ closer' = closer @@ (FreshPool :> "none")
    /\ loc' = [loc EXCEPT ![r].cand = FreshPool]
    /\ Goto(r, "Ping")
    /\ UNCHANGED <<phase, queryTimeout, mwVars, pairVars, mu, histVars>>

\* pgxpool.New succeeds: the candidate pool exists.
NewPoolOk(r) ==
    /\ At(r, "NewPool")
    /\ FreshPool <= MaxPools
    /\ poolDb' = poolDb @@ (FreshPool :> loc[r].reqName)
    /\ closeCalls' = closeCalls @@ (FreshPool :> 0)
    /\ closer' = closer @@ (FreshPool :> "none")
    /\ loc' = [loc EXCEPT ![r].cand = FreshPool]
    /\ Goto(r, "Ping")
    /\ UNCHANGED <<phase, queryTimeout, mwVars, pairVars, mu, poolCloseMu, histVars>>

\* PingFail with the swap done before the ping is checked.
PingFail_SwapFirst(r) ==
    /\ At(r, "Ping")
    /\ closeCalls' = [closeCalls EXCEPT ![loc[r].cand] = @ + 1]
    /\ pool' = loc[r].cand
    /\ dbName' = loc[r].reqName
    /\ \E e \in DbErrorTexts :
          Respond(r, connectionError("Failed to verify database connection", e))
    /\ Return(r)
    /\ UNCHANGED <<phase, queryTimeout, mwVars, mu, poolCloseMu, poolDb, closer, histVars>>

\* PingFail returning the error without closing the candidate.
PingFail_NoClose(r) ==
    /\ At(r, "Ping")
    /\ \E e \in DbErrorTexts :
          Respond(r, connectionError("Failed to verify database connection", e))
    /\ Return(r)
    /\ UNCHANGED <<phase, queryTimeout, mwVars, pairVars, mu, poolCloseMu, poolVars, histVars>>

\* pool.Ping fails: pool.Close() on the candidate and the error response.
PingFail(r) ==
    /\ At(r, "Ping")
    /\ closeCalls' = [closeCalls EXCEPT ![loc[r].cand] = @ + 1]
    /\ \E e \in DbErrorTexts :
          Respond(r, connectionError("Failed to verify database connection", e))
    /\ Return(r)
    /\ UNCHANGED <<phase, queryTimeout, mwVars, pairVars, mu, poolCloseMu, poolDb, closer, histVars>>

\* pool.Ping succeeds.
PingOk(r) ==
    /\ At(r, "Ping")
    /\ Goto(r, "poolCloseMu_Lock")
    /\ UNCHANGED <<phase, queryTimeout, mwVars, pairVars, mu, poolCloseMu, poolVars, loc, histVars>>

\* ------------------------------------ handleSwitchDatabase, swap and close
\* h.poolCloseMu.Lock()
poolCloseMu_Lock(r) ==
    /\ At(r, "poolCloseMu_Lock")
    /\ poolCloseMu = NoReq
    /\ poolCloseMu' = r
    /\ Goto(r, "SetPool_Lock")
    /\ UNCHANGED <<phase, queryTimeout, mwVars, pairVars, mu, poolVars, loc, histVars>>

\* SetPool: i.mu.Lock()
SetPool_Lock(r) ==
    /\ At(r, "SetPool_Lock")
    /\ Lock(r)
    /\ Goto(r, "SetPool")
    /\ UNCHANGED <<phase, queryTimeout, mwVars, pairVars, poolCloseMu, poolVars, loc, histVars>>

\* SetPool reading oldPool after the assignment: it returns the new pool.
SetPool_ReturnsNew(r) ==
    /\ At(r, "SetPool")
    /\ loc' = [loc EXCEPT ![r].oldPool = loc[r].cand]
    /\ pool' = loc[r].cand
    /\ dbName' = loc[r].reqName
    /\ Unlock(r)
    /\ swapLog' = Append(swapLog, [old |-> pool, new |-> loc[r].cand, name |-> loc[r].reqName])
    /\ committed' = NoCommit
    /\ Goto(r, "go_Close")
    /\ UNCHANGED <<phase, queryTimeout, mwVars, poolCloseMu, poolVars, closeLog>>

\* SetPool without the assignment of i.dbName.
SetPool_KeepsName(r) ==
    /\ At(r, "SetPool")
    /\ loc' = [loc EXCEPT ![r].oldPool = pool]
    /\ pool' = loc[r].cand
    /\ dbName' = dbName
    /\ Unlock(r)
    /\ swapLog' = Append(swapLog, [old |-> pool, new |-> loc[r].cand, name |-> loc[r].reqName])
    /\ committed' = NoCommit
    /\ Goto(r, "go_Close")
    /\ UNCHANGED <<phase, queryTimeout, mwVars, poolCloseMu, poolVars, closeLog>>

\* SetPool: oldPool := i.pool; i.pool = pool; i.dbName = dbName; Unlock.
SetPool(r) ==
    /\ At(r, "SetPool")
    /\ loc' = [loc EXCEPT ![r].oldPool = pool]
    /\ pool' = loc[r].cand
    /\ dbName' = loc[r].reqName
    /\ Unlock(r)
    /\ swapLog' = Append(swapLog, [old |-> pool, new |-> loc[r].cand, name |-> loc[r].reqName])
    /\ committed' = NoCommit
    /\ Goto(r, "go_Close")
    /\ UNCHANGED <<phase, queryTimeout, mwVars, poolCloseMu, poolVars, closeLog>>

\* The success response, with what the handler had done when it wrote it.
switchOK(r) ==
    [code |-> OK, database |-> loc[r].reqName, pool |-> loc[r].cand,
     waited |-> loc[r].waited,
     closeDone |-> loc[r].oldPool # NoPool /\ closer[loc[r].oldPool] = "done"]

\* respondJSON(switchDatabaseData) and the deferred h.poolCloseMu.Unlock().
RespondSwitched(r) ==
    /\ Respond(r, switchOK(r))
    /\ Return(r)
    /\ poolCloseMu' = NoReq
    /\ committed' = [pool |-> loc[r].cand, name |-> loc[r].reqName]

\* go_Close releasing poolCloseMu once the close is initiated, before the wait.
go_Close_Unlock(r) ==
    /\ At(r, "go_Close")
    /\ closer' = [closer EXCEPT ![loc[r].oldPool] = "spawned"]
    /\ closeLog' = Append(closeLog, loc[r].oldPool)
    /\ poolCloseMu' = NoReq
    /\ Goto(r, "select")
    /\ UNCHANGED <<loc, committed>>
    /\ UNCHANGED <<phase, queryTimeout, mwVars, pairVars, mu, poolDb, closeCalls, swapLog>>

\* go_Close with the goroutine closing the handler's new pool, not oldPool.
go_Close_ClosesNew(r) ==
    /\ At(r, "go_Close")
    /\ closer' = [closer EXCEPT ![loc[r].cand] = "spawned"]
    /\ closeLog' = Append(closeLog, loc[r].cand)
    /\ loc' = [loc EXCEPT ![r].oldPool = loc[r].cand]
    /\ Goto(r, "select")
    /\ UNCHANGED <<poolCloseMu, committed>>
    /\ UNCHANGED <<phase, queryTimeout, mwVars, pairVars, mu, poolDb, closeCalls, swapLog>>

\* if oldPool != nil { go func() { oldPool.Close(); close(done) }() ... }
go_Close(r) ==
    /\ At(r, "go_Close")
    /\ IF loc[r].oldPool # NoPool
          THEN /\ closer' = [closer EXCEPT ![loc[r].oldPool] = "spawned"]
               /\ closeLog' = Append(closeLog, loc[r].oldPool)
               /\ Goto(r, "select")
               /\ UNCHANGED <<loc, poolCloseMu, committed>>
          ELSE /\ RespondSwitched(r)
               /\ UNCHANGED <<closer, closeLog>>
    /\ UNCHANGED <<phase, queryTimeout, mwVars, pairVars, mu, poolDb, closeCalls, swapLog>>

\* select, case <-done
selectDone(r) ==
    /\ At(r, "select")
    /\ closer[loc[r].oldPool] = "done"
    /\ RespondSwitched(r)
    /\ UNCHANGED <<phase, queryTimeout, mwVars, pairVars, mu, poolVars, swapLog, closeLog>>

\* select, case <-time.After(timeout)
selectTimeout(r) ==
    /\ At(r, "select")
    /\ loc[r].waited >= CloseTimeout(queryTimeout)
    /\ RespondSwitched(r)
    /\ UNCHANGED <<phase, queryTimeout, mwVars, pairVars, mu, poolVars, swapLog, closeLog>>

\* Time passes for a handler waiting in its select, up to the moment its
\* timer is due: time.After(timeout) delivers once timeout has elapsed.
Tick(r) ==
    /\ At(r, "select")
    /\ loc[r].waited < CloseTimeout(queryTimeout)
    /\ loc' = [loc EXCEPT ![r].waited = CloseTimeout(queryTimeout)]
    /\ resp' = NoResp
    /\ UNCHANGED <<phase, queryTimeout, mwVars, pairVars, mu, poolCloseMu, poolVars, pc, histVars>>

\* ------------------------------------------------ the closing goroutine
\* The goroutine started by the handler runs and calls oldPool.Close().
Close_Invoke(p) ==
    /\ phase = "running"
    /\ p \in Pools
    /\ closer[p] = "spawned"
    /\ closer' = [closer EXCEPT ![p] = "closing"]
    /\ closeCalls' = [closeCalls EXCEPT ![p] = @ + 1]
    /\ resp' = NoResp
    /\ UNCHANGED <<phase, queryTimeout, mwVars, pairVars, mu, poolCloseMu, poolDb, pc, loc, histVars>>

\* oldPool.Close() returns and the goroutine closes done.
Close_Return(p) ==
    /\ phase = "running"
    /\ p \in Pools
    /\ closer[p] = "closing"
    /\ closer' = [closer EXCEPT ![p] = "done"]
    /\ resp' = NoResp
    /\ UNCHANGED <<phase, queryTimeout, mwVars, pairVars, mu, poolCloseMu, poolDb, closeCalls, pc, loc,
                   histVars>>

\* ------------------------------------------------------------ shutdown
\* ListenAndServe returns ErrServerClosed and main returns: the deferred
\* pool.Close() runs on the pool main created, and the process ends with
\* all of its goroutines.
Shutdown ==
    /\ phase = "running"
    /\ phase' = "exited"
    /\ closeCalls' = [closeCalls EXCEPT ![InitialPool] = @ + 1]
    /\ resp' = NoResp
    /\ pc' = [r \in Reqs |-> "idle"]
    /\ loc' = [r \in Reqs |-> NoLocals]
    /\ mu' = [writer |-> NoReq, readers |-> {}]
    /\ poolCloseMu' = NoReq
    /\ UNCHANGED <<queryTimeout, mwVars, pairVars, poolDb, closer, histVars>>

Next ==
    \/ \E r \in Reqs : handleSwitchDatabase(r)
    \/ \E r \in Reqs : handleListDatabases(r)
    \/ \E r \in Reqs : handleGetSchema(r)
    \/ \E r \in Reqs : getPool_Return(r)
    \/ \E r \in Reqs : ListDatabases(r)
    \/ \E r \in Reqs : respondDatabases(r)
    \/ \E r \in Reqs : getAllTables(r)
    \/ \E r \in Reqs : getAllColumns(r)
    \/ \E r \in Reqs : getAllForeignKeys(r)
    \/ \E r \in Reqs : NewPoolFail(r)
    \/ \E r \in Reqs : NewPoolOk(r)
    \/ \E r \in Reqs : PingFail(r)
    \/ \E r \in Reqs : PingOk(r)
    \/ \E r \in Reqs : poolCloseMu_Lock(r)
    \/ \E r \in Reqs : SetPool_Lock(r)
    \/ \E r \in Reqs : SetPool(r)
    \/ \E r \in Reqs : go_Close(r)
    \/ \E r \in Reqs : selectDone(r)
    \/ \E r \in Reqs : selectTimeout(r)
    \/ \E r \in Reqs : Tick(r)
    \/ \E p \in PoolIds : Close_Invoke(p)
    \/ \E p \in PoolIds : Close_Return(p)
    \/ Shutdown

Spec == Init /\ [][Next]_vars

\* The switch handlers, their closing goroutines and main alone.  The read
\* handlers take part in none of the switch handler's waits: they hold i.mu
\* for one field read and write nothing a switch reads.
NextSwitch ==
    \/ \E r \in Reqs : handleSwitchDatabase(r)
    \/ \E r \in Reqs : getPool_Return(r)
    \/ \E r \in Reqs : ListDatabases(r)
    \/ \E r \in Reqs : NewPoolFail(r)
    \/ \E r \in Reqs : NewPoolOk(r)
    \/ \E r \in Reqs : PingFail(r)
    \/ \E r \in Reqs : PingOk(r)
    \/ \E r \in Reqs : poolCloseMu_Lock(r)
    \/ \E r \in Reqs : SetPool_Lock(r)
    \/ \E r \in Reqs : SetPool(r)
    \/ \E r \in Reqs : go_Close(r)
    \/ \E r \in Reqs : selectDone(r)
    \/ \E r \in Reqs : selectTimeout(r)
    \/ \E r \in Reqs : Tick(r)
    \/ \E p \in PoolIds : Close_Invoke(p)
    \/ \E p \in PoolIds : Close_Return(p)
    \/ Shutdown

\* A step of a handler waiting in its select.
SelectStep == \E r \in Reqs : Tick(r) \/ selectTimeout(r) \/ selectDone(r)

\* The Go runtime runs a runnable goroutine and fires due timers: a handler
\* waiting in its select sees time pass and takes a ready case.  Nothing
\* makes oldPool.Close() return.
FairSpec == Init /\ [][NextSwitch]_vars /\ WF_vars(SelectStep)

\* ===================================================================
\* Properties
\* ===================================================================

\* Pools that were live at some time: the initial one and every pool SetPool
\* installed.
Installed == {InitialPool} \cup {swapLog[k].new : k \in 1..Len(swapLog)}

\* Pools SetPool has replaced.
Replaced == {swapLog[k].old : k \in 1..Len(swapLog)}

\* Candidates closed by the handler itself because their ping failed.
PingFailed == {p \in Pools \ {InitialPool} : closeCalls[p] > 0 /\ closer[p] = "none"}

\* C1: a switch that fails to create or ping its candidate never changes the
\* live (pool, name) pair: the step that writes the CONNECTION_ERROR response
\* leaves pool and dbName (so getPool and CurrentDatabase) as they were, the
\* request has made no SetPool call, and a candidate whose ping failed is
\* never the live pool nor was it ever installed.
C1_FailedSwitchKeepsPair ==
    /\ [](PingFailed \cap (Installed \cup {pool}) = {})
    /\ [][resp'.code = ErrConnectionError =>
            /\ resp'.kind = "switch"
            /\ loc[resp'.req].oldPool = NoPool
            /\ swapLog' = swapLog
            /\ pool' = pool /\ dbName' = dbName
            /\ getPool' = getPool /\ CurrentDatabase' = CurrentDatabase]_vars

\* C1 witness: a ping has failed, the connection error is the response and
\* the engine is still on the initial pair.
C1_Witness ==
    /\ resp.code = ErrConnectionError
    /\ resp.message = "Failed to verify database connection"
    /\ PingFailed # {}
    /\ pool = InitialPool /\ dbName = InitialDb

\* C2 (as claimed): the database name in a list response is the name paired
\* with the pool the same request ran its query on.
C2_NoTornPair ==
    (resp.kind = "list" /\ resp.code = OK) => resp.current = poolDb[resp.via]

\* C3 (as claimed): when the process shuts down with no request in flight and
\* no close goroutine pending, Close has been invoked exactly once on every
\* pool ever created.
C3_ClosedExactlyOnce ==
    [][(/\ phase = "running" /\ phase' = "exited"
        /\ \A r \in Reqs : pc[r] = "idle"
        /\ \A p \in Pools : closer[p] \in {"none", "done"})
       => \A p \in Pools : closeCalls'[p] = 1]_vars

\* C4 (as claimed): never two old-pool Close operations in progress at once.
C4_OneCloseAtATime ==
    Cardinality({p \in Pools : closer[p] = "closing"}) <= 1

\* Handler positions at which the request holds poolCloseMu in the code:
\* from h.poolCloseMu.Lock() to the deferred Unlock at return.
InSwap == {"SetPool_Lock", "SetPool", "go_Close", "select"}

\* C5 (as claimed): no switch request waits for poolCloseMu while the request
\* holding it has its old pool still closing.
C5_NoWaitWhileClosing ==
    ~ \E r1, r2 \in Reqs :
        /\ poolCloseMu = r1 /\ pc[r1] = "select"
        /\ closer[loc[r1].oldPool] \in {"spawned", "closing"}
        /\ pc[r2] = "poolCloseMu_Lock"

\* C5 (amended): a switch request holds poolCloseMu from before its SetPool
\* until it responds, so all through its wait for the old pool's Close; the
\* lock is held by nobody else and is free once the request has responded,
\* whether or not Close is still running.
C5_LockHeldThroughWait ==
    /\ \A r \in Reqs : (pc[r] \in InSwap) <=> (poolCloseMu = r)
    /\ poolCloseMu = NoReq \/ pc[poolCloseMu] \in InSwap
    /\ (resp.kind = "switch" /\ resp.code = OK) => poolCloseMu # resp.req

\* C5 witness: one request waits in its select holding the lock while its old
\* pool is closing, and another waits for the lock.
C5_Witness ==
    \E r1, r2 \in Reqs :
        /\ poolCloseMu = r1 /\ pc[r1] = "select"
        /\ closer[loc[r1].oldPool] = "closing"
        /\ pc[r2] = "poolCloseMu_Lock"

\* C6: each SetPool is followed by exactly one close attempt, started on the
\* pool that SetPool replaced: the attempts are the replaced pools in swap
\* order, none twice, the only swap without its attempt yet is the one whose
\* handler is about to start it, and a switch that responds has started its
\* attempt.
C6_OneCloseAttemptPerSwitch ==
    phase = "running" =>
        /\ Len(closeLog) + Cardinality({r \in Reqs : pc[r] = "go_Close"}) = Len(swapLog)
        /\ \A k \in 1..Len(closeLog) : closeLog[k] = swapLog[k].old
        /\ \A j, k \in 1..Len(closeLog) : closeLog[j] = closeLog[k] => j = k
        /\ \A k \in 1..Len(closeLog) : closer[closeLog[k]] # "none"
        /\ \A p \in Pools : closer[p] # "none" => Contains(closeLog, p)
        /\ (resp.kind = "switch" /\ resp.code = OK) => Len(closeLog) = Len(swapLog)

\* C6 witness: two switches have responded and two attempts were started.
C6_Witness ==
    /\ resp.kind = "switch" /\ resp.code = OK
    /\ Len(swapLog) = 2 /\ Len(closeLog) = 2

\* max(2 x query timeout, 5 seconds)
MaxWait == IF 2 * queryTimeout >= 5 THEN 2 * queryTimeout ELSE 5

\* C7: a handler waits in its select for at most max(2 x queryTimeout, 5 s);
\* it leaves the select only by responding with success (or when the process
\* exits); a success written before Close completed was written exactly at
\* that bound; and every handler waiting in its select eventually leaves it,
\* even if Close never returns.
C7_BoundedCloseWait ==
    /\ [](\A r \in Reqs : pc[r] = "select" => loc[r].waited <= MaxWait)
    /\ []((resp.kind = "switch" /\ resp.code = OK) =>
            /\ resp.waited <= MaxWait
            /\ ~resp.closeDone => resp.waited = MaxWait)
    /\ [][\A r \in Reqs : (pc[r] = "select" /\ pc'[r] # "select") =>
            \/ phase' = "exited"
            \/ resp'.req = r /\ resp'.kind = "switch" /\ resp'.code = OK]_vars
    /\ \A r \in Reqs : (pc[r] = "select") ~> (pc[r] = "idle")

\* C7 witness: a switch has responded with success after the full wait while
\* Close on the replaced pool has still not returned.
C7_Witness ==
    /\ resp.kind = "switch" /\ resp.code = OK
    /\ ~resp.closeDone /\ resp.waited = MaxWait
    /\ \E p \in Pools : closer[p] = "closing"

\* Handler positions that follow a getPool.
Borrowing == {"ListDatabases", "CurrentDatabase", "getAllTables", "getAllColumns",
              "getAllForeignKeys"}

C9_NotClosedWhileBorrowed ==
    \A r \in Reqs :
        (phase = "running" /\ pc[r] \in Borrowing \ {"CurrentDatabase"})
            => ~PoolClosed(loc[r].borrowed)

\* C9 (amended): a request keeps the pool reference it borrowed for all of
\* its queries, also after a swap; Close is never invoked on the live pool
\* while the server runs, so a borrowed pool can only be closed once SetPool
\* has replaced it, and then without waiting for the borrower: the borrower's
\* next query on it fails and the request ends with an error.
C9_BorrowedOutlivesSwapOnly ==
    /\ [](phase = "running" => ~PoolClosed(pool))
    /\ [](\A r \in Reqs : (phase = "running" /\ pc[r] \in Borrowing) =>
            /\ \A k \in 1..Len(loc[r].queries) : loc[r].queries[k].pool = loc[r].borrowed
            /\ PoolClosed(loc[r].borrowed) =>
                  loc[r].borrowed \in Replaced /\ loc[r].borrowed # pool)
    /\ [][\A r \in Reqs :
            (pc[r] \in Borrowing \ {"CurrentDatabase"} /\ PoolClosed(loc[r].borrowed)
                /\ pc'[r] # pc[r] /\ phase' = "running")
            => resp'.req = r /\ resp'.code \in {ErrDatabaseError, ErrSchemaError}]_vars

\* C9 witness: a GetSchema call that has issued its table query still holds
\* the pool it borrowed, which has since been replaced and closed.
C9_Witness ==
    \E r \in Reqs :
        /\ pc[r] = "getAllColumns"
        /\ loc[r].borrowed \in Replaced /\ PoolClosed(loc[r].borrowed)
        /\ Len(loc[r].queries) = 1

\* C10: GetSchema on a database without tables issues the table query and no
\* other, and returns a schema whose table list is present and empty.
C10_EmptySchemaOneQuery ==
    /\ (resp.kind = "schema" /\ resp.code = OK /\ Len(TablesOf(poolDb[resp.queries[1].pool])) = 0) =>
            /\ resp.queries = <<[q |-> "tables", pool |-> resp.queries[1].pool]>>
            /\ "Tables" \in DOMAIN resp.schema
            /\ resp.schema.Tables = <<>>
    /\ \A r \in Reqs : pc[r] \in {"getAllColumns", "getAllForeignKeys"} =>
            Len(TablesOf(poolDb[loc[r].borrowed])) > 0

\* C10 witness: GetSchema has answered for the table-less database "a".
C10_Witness ==
    /\ resp.kind = "schema" /\ resp.code = OK
    /\ poolDb[resp.queries[1].pool] = "a"
    /\ resp.schema.Tables = <<>>

\* ===================================================================
\* GetSchema on databases of every size
\* ===================================================================

\* The server starts on a database with any number of tables up to MaxTables.
InitSchema ==
    /\ phase = "running"
    /\ queryTimeout \in QueryTimeouts
    /\ pool = InitialPool
    /\ dbName \in SchemaDatabases
    /\ mu = [writer |-> NoReq, readers |-> {}]
    /\ poolCloseMu = NoReq
    /\ poolDb = (InitialPool :> dbName)
    /\ closeCalls = (InitialPool :> 0)
    /\ closer = (InitialPool :> "none")
    /\ pc = [r \in Reqs |-> "idle"]
    /\ loc = [r \in Reqs |-> NoLocals]
    /\ resp = NoResp
    /\ swapLog = <<>>
    /\ closeLog = <<>>
    /\ committed = NoCommit
    /\ NewHandler

\* GET /api/schema requests alone.
NextSchema ==
    \/ \E r \in Reqs : handleGetSchema(r)
    \/ \E r \in Reqs : getPool_Return(r)
    \/ \E r \in Reqs : getAllTables(r)
    \/ \E r \in Reqs : getAllColumns(r)
    \/ \E r \in Reqs : getAllForeignKeys(r)

SchemaSpec == InitSchema /\ [][NextSchema]_vars

\* The kinds of the round trips of a query log, in order.
Kinds(qs) == [k \in 1..Len(qs) |-> qs[k].q]

\* C11: a GetSchema call issues its round trips in the order tables, columns,
\* foreign keys, one of each at most, whatever the number of tables: before
\* each query the log holds exactly the queries before it, a successful call
\* has issued either the table query alone or the three queries, and the
\* schema it returns has every table of the database.
C11_AtMostThreeQueries ==
    /\ \A r \in Reqs :
          /\ pc[r] = "getAllTables" => Kinds(loc[r].queries) = <<>>
          /\ pc[r] = "getAllColumns" => Kinds(loc[r].queries) = <<"tables">>
          /\ pc[r] = "getAllForeignKeys" => Kinds(loc[r].queries) = <<"tables", "columns">>
    /\ (resp.kind = "schema" /\ resp.code = OK) =>
          /\ Len(resp.queries) <= 3
          /\ Kinds(resp.queries) \in {<<"tables">>, <<"tables", "columns", "foreignKeys">>}
          /\ Len(resp.schema.Tables) = Len(TablesOf(poolDb[resp.queries[1].pool]))

\* C11 witness: the schema of the database with MaxTables tables was returned
\* after three round trips.
C11_Witness ==
    /\ resp.kind = "schema" /\ resp.code = OK
    /\ Len(resp.schema.Tables) = MaxTables /\ MaxTables > 2
    /\ Len(resp.queries) = 3

\* ===================================================================
\* withTimeout
\* ===================================================================

\* A context as withTimeout sees it: what ctx.Deadline() returns.
NoDeadline == [ok |-> FALSE, deadline |-> 0]
Contexts == {NoDeadline} \cup {[ok |-> TRUE, deadline |-> d] : d \in 0..MaxDeadline}

\* time.Until(deadline) at clock reading now; negative once it has passed.
Until(deadline, now) == deadline - now

\* context.WithCancel(parent): the parent's deadline, if any, is inherited.
WithCancel(parent) == parent

\* context.WithTimeout(parent, timeout) at clock reading now: the deadline
\* now + timeout, unless the parent's deadline is before it.
WithTimeout(parent, timeout, now) ==
    IF parent.ok /\ parent.deadline < now + timeout
       THEN WithCancel(parent)
       ELSE [ok |-> TRUE, deadline |-> now + timeout]

\* withTimeout applying the query timeout whatever the parent's deadline.
withTimeout_AlwaysApply(parent, now1, now2) == [ok |-> TRUE, deadline |-> now2 + queryTimeout]

\* withTimeout: now1 is the clock read by time.Until, now2 the clock read by
\* context.WithTimeout when the second branch is taken.
withTimeout(parent, now1, now2) ==
    IF parent.ok /\ Until(parent.deadline, now1) <= queryTimeout
       THEN WithCancel(parent)
       ELSE WithTimeout(parent, queryTimeout, now2)

\* An introspection call starts: its caller's context and the clock.
Call_Enter(r) ==
    /\ At(r, "idle")
    /\ \E parent \in Contexts, now \in 0..MaxClock :
          loc' = [loc EXCEPT ![r] = [parent |-> parent, now |-> now, ctx |-> NoDeadline]
                                    @@ [NoLocals EXCEPT !.handler = "withTimeout"]]
    /\ Goto(r, "withTimeout")
    /\ UNCHANGED <<phase, queryTimeout, mwVars, pairVars, mu, poolCloseMu, poolVars, histVars>>

\* ctx, cancel := i.withTimeout(ctx); the clock may advance between the two
\* readings the function makes.
Call_withTimeout(r) ==
    /\ At(r, "withTimeout")
    /\ \E now2 \in {loc[r].now, loc[r].now + 1} :
          LET took2 == ~(loc[r].parent.ok /\ Until(loc[r].parent.deadline, loc[r].now) <= queryTimeout)
          IN /\ took2 \/ now2 = loc[r].now
             /\ loc' = [loc EXCEPT ![r].ctx = withTimeout(loc[r].parent, loc[r].now, now2),
                                   ![r].now = now2]
    /\ Goto(r, "withTimeout_done")
    /\ UNCHANGED <<phase, queryTimeout, mwVars, pairVars, mu, poolCloseMu, poolVars, histVars>>

\* defer cancel(): the call returns.
Call_cancel(r) ==
    /\ At(r, "withTimeout_done")
    /\ Return(r)
    /\ Goto(r, "idle")
    /\ UNCHANGED <<phase, queryTimeout, mwVars, pairVars, mu, poolCloseMu, poolVars, histVars>>

NextTimeout ==
    \/ \E r \in Reqs : Call_Enter(r)
    \/ \E r \in Reqs : Call_withTimeout(r)
    \/ \E r \in Reqs : Call_cancel(r)

TimeoutSpec == Init /\ [][NextTimeout]_vars

\* The earlier of the caller's deadline (if any) and t.
Earlier(parent, t) == IF parent.ok /\ parent.deadline < t THEN parent.deadline ELSE t

\* C12: the working context always has a deadline, which is the earlier of
\* the caller's deadline and (clock + query timeout); it is never later than
\* the caller's deadline, a caller deadline that is not later than clock +
\* query timeout is kept unchanged, and without a caller deadline the working
\* deadline is clock + query timeout.
C12_NeverExtendsDeadline ==
    \A r \in Reqs : pc[r] = "withTimeout_done" =>
        LET parent == loc[r].parent
            ctx == loc[r].ctx
            bound == loc[r].now + queryTimeout
        IN /\ ctx.ok
           /\ ctx.deadline = Earlier(parent, bound)
           /\ ctx.deadline <= bound
           /\ parent.ok => ctx.deadline <= parent.deadline
           /\ (parent.ok /\ parent.deadline <= bound) => ctx = parent
           /\ ~parent.ok => ctx.deadline = bound

\* C12 witness: a caller deadline that is sooner than clock + query timeout,
\* and still ahead, was kept unchanged as the working deadline.
C12_Witness ==
    \E r \in Reqs :
        /\ pc[r] = "withTimeout_done"
        /\ loc[r].parent.ok
        /\ loc[r].parent.deadline > loc[r].now
        /\ loc[r].parent.deadline < loc[r].now + queryTimeout
        /\ loc[r].ctx = loc[r].parent

\* ===================================================================
\* DDL synthesis: ValidIdentifier, BuildCreateTableDDL, BuildAddColumnDDL,
\* Introspector.CreateTable / AddColumn and their handlers
\* ===================================================================

\* A Go string is the sequence of its runes, each written as a one-character
\* string; "" is <<>>.
Chars(s) == [k \in 1..Len(s) |-> SubSeq(s, k, k)]

\* The rune U+00E9, two bytes in UTF-8.
EAcute == "U+00E9"

\* U+0020 .. U+005F and U+0061 .. U+007E in code-point order.
AsciiLow == Chars(" !\"#$%&'()*+,-./0123456789:;<=>?@ABCDEFGHIJKLMNOPQRSTUVWXYZ[\\]^_")
AsciiHigh == Chars("abcdefghijklmnopqrstuvwxyz{|}~")

\* The value of a rune.
Ord ==
    [c \in {AsciiLow[k] : k \in 1..Len(AsciiLow)} \cup {AsciiHigh[k] : k \in 1..Len(AsciiHigh)}
           \cup {EAcute} |->
        IF c = EAcute THEN 233
        ELSE IF \E k \in 1..Len(AsciiLow) : AsciiLow[k] = c
                THEN 31 + CHOOSE k \in 1..Len(AsciiLow) : AsciiLow[k] = c
                ELSE 96 + CHOOSE k \in 1..Len(AsciiHigh) : AsciiHigh[k] = c]

\* Bytes of a rune in UTF-8 (runes below U+0800).
RuneLen(c) == IF Ord[c] < 128 THEN 1 ELSE 2

\* len(name): the length in bytes.
RECURSIVE len(_)
len(s) == IF s = <<>> THEN 0 ELSE RuneLen(Head(s)) + len(Tail(s))

\* r >= lo && r <= hi
RuneIn(c, lo, hi) == Ord[c] >= Ord[lo] /\ Ord[c] <= Ord[hi]

\* ValidIdentifier without the separate rule for the first character.
ValidIdentifier_AnyFirst(name) ==
    IF name = <<>> \/ len(name) > 63
       THEN FALSE
       ELSE \A k \in 1..Len(name) :
               RuneIn(name[k], "a", "z") \/ RuneIn(name[k], "0", "9") \/ name[k] = "_"

\* ValidIdentifier: the loop returns false at the first rune that fails its
\* test; the byte index i is 0 for the first rune only.
ValidIdentifier(name) ==
    IF name = <<>> \/ len(name) > 63
       THEN FALSE
       ELSE \A k \in 1..Len(name) :
               IF k = 1
                  THEN RuneIn(name[k], "a", "z") \/ name[k] = "_"
                  ELSE RuneIn(name[k], "a", "z") \/ RuneIn(name[k], "0", "9") \/ name[k] = "_"

\* strings.ReplaceAll: every double quote is doubled.
RECURSIVE EscapeQuotes(_)
EscapeQuotes(s) ==
    IF s = <<>> THEN <<>>
    ELSE (IF Head(s) = "\"" THEN <<"\"", "\"">> ELSE <<Head(s)>>) \o EscapeQuotes(Tail(s))

\* sanitizeIdentifier without the surrounding quotes.
sanitizeIdentifier_Bare(name) == EscapeQuotes(name)

\* sanitizeIdentifier: the escaped name between double quotes.
sanitizeIdentifier(name) == <<"\"">> \o EscapeQuotes(name) \o <<"\"">>

\* AllowedTypes[..].Name
AllowedTypes ==
    <<"text", "varchar", "char", "smallint", "integer", "bigint", "numeric", "real",
      "double precision", "serial", "bigserial", "boolean", "date", "time", "timestamp",
      "timestamptz", "uuid", "json", "jsonb", "bytea">>

\* allowedTypesMap: the keys that map to true.
allowedTypesMap == {Chars(AllowedTypes[k]) : k \in 1..Len(AllowedTypes)}

\* IsValidType
IsValidType(t) == t \in allowedTypesMap

\* sanitizeType falling back to text for a type that is not on the list.
sanitizeType_DefaultText(t) ==
    IF t \in allowedTypesMap
       THEN [type |-> t, err |-> Nil]
       ELSE [type |-> Chars("text"), err |-> Nil]

\* sanitizeType
sanitizeType(t) ==
    IF t \in allowedTypesMap
       THEN [type |-> t, err |-> Nil]
       ELSE [type |-> <<>>, err |-> "unsupported column type"]

\* strings.Join(parts, sep)
RECURSIVE Join(_, _)
Join(parts, sep) ==
    IF parts = <<>> THEN <<>>
    ELSE IF Len(parts) = 1 THEN parts[1]
    ELSE parts[1] \o sep \o Join(Tail(parts), sep)

ErrInvalidTable == "invalid table name: must be lowercase letters, numbers, underscores, and start with letter or underscore"
ErrInvalidColumn == "invalid column name: must be lowercase letters, numbers, underscores, and start with letter or underscore"

\* BuildCreateTableDDL returning the statement together with the error.
BuildCreateTableDDL_Partial(tableName) ==
    [query |-> Chars("CREATE TABLE ") \o sanitizeIdentifier(tableName)
                  \o Chars(" (id SERIAL PRIMARY KEY)"),
     err |-> IF ~ValidIdentifier(tableName) THEN ErrInvalidTable ELSE Nil]

\* BuildCreateTableDDL
BuildCreateTableDDL(tableName) ==
    IF ~ValidIdentifier(tableName)
       THEN [query |-> <<>>, err |-> ErrInvalidTable]
       ELSE [query |-> Chars("CREATE TABLE ") \o sanitizeIdentifier(tableName)
                          \o Chars(" (id SERIAL PRIMARY KEY)"),
             err |-> Nil]

\* UniqueClause without the primary-key exclusion.
UniqueClause_Always(col) == col.Unique

\* if col.Unique && !col.PrimaryKey
UniqueClause(col) == col.Unique /\ ~col.PrimaryKey

\* hasReference looking at the reference table alone.
hasReference_TableOnly(col) == col.ReferencesTable # <<>>

\* if col.ReferencesTable != "" && col.ReferencesColumn != ""
hasReference(col) == col.ReferencesTable # <<>> /\ col.ReferencesColumn # <<>>

\* referenceError checking the reference table only.
referenceError_TableOnly(col) ==
    IF ~ValidIdentifier(col.ReferencesTable) THEN "invalid foreign key table name"
    ELSE Nil

\* The two checks inside the reference branch.
referenceError(col) ==
    IF ~ValidIdentifier(col.ReferencesTable) THEN "invalid foreign key table name"
    ELSE IF ~ValidIdentifier(col.ReferencesColumn) THEN "invalid foreign key column name"
    ELSE Nil

\* BuildAddColumnDDL: parts grows clause by clause; every failed check
\* returns "" and the error.
BuildAddColumnDDL(tableName, col) ==
    LET safe == sanitizeType(col.Type)
        parts2 == <<sanitizeIdentifier(col.Name), safe.type>>
        parts3 == IF col.NotNull THEN Append(parts2, Chars("NOT NULL")) ELSE parts2
        parts4 == IF col.PrimaryKey THEN Append(parts3, Chars("PRIMARY KEY")) ELSE parts3
        parts5 == IF UniqueClause(col) THEN Append(parts4, Chars("UNIQUE")) ELSE parts4
        parts6 == IF hasReference(col)
                     THEN Append(parts5, Chars("REFERENCES ")
                                             \o sanitizeIdentifier(col.ReferencesTable)
                                             \o <<"(">>
                                             \o sanitizeIdentifier(col.ReferencesColumn)
                                             \o <<")">>)
                     ELSE parts5
    IN IF ~ValidIdentifier(tableName) THEN [query |-> <<>>, err |-> "invalid table name"]
       ELSE IF ~ValidIdentifier(col.Name) THEN [query |-> <<>>, err |-> ErrInvalidColumn]
       ELSE IF safe.err # Nil THEN [query |-> <<>>, err |-> safe.err]
       ELSE IF hasReference(col) /\ referenceError(col) # Nil
               THEN [query |-> <<>>, err |-> referenceError(col)]
       ELSE [query |-> Chars("ALTER TABLE ") \o sanitizeIdentifier(tableName)
                          \o Chars(" ADD COLUMN ") \o Join(parts6, <<" ">>),
             err |-> Nil]

\* req.ForeignKey == nil
NoForeignKey == [nil |-> TRUE, ReferencesTable |-> <<>>, ReferencesColumn |-> <<>>]

\* The zero AddColumnRequest.
NoRequest == [Name |-> <<>>, Type |-> <<>>, Nullable |-> FALSE, PrimaryKey |-> FALSE,
              Unique |-> FALSE, ForeignKey |-> NoForeignKey]

\* ColumnDefOf with NotNull copied from Nullable.
ColumnDefOf_NotNullIsNullable(req) ==
    [Name |-> req.Name, Type |-> req.Type, NotNull |-> req.Nullable,
     PrimaryKey |-> req.PrimaryKey, Unique |-> req.Unique,
     ReferencesTable |-> IF req.ForeignKey.nil THEN <<>> ELSE req.ForeignKey.ReferencesTable,
     ReferencesColumn |-> IF req.ForeignKey.nil THEN <<>> ELSE req.ForeignKey.ReferencesColumn]

\* AddColumn: col := ColumnDef{...} and the copy of the foreign key, if any.
ColumnDefOf(req) ==
    [Name |-> req.Name, Type |-> req.Type, NotNull |-> ~req.Nullable,
     PrimaryKey |-> req.PrimaryKey, Unique |-> req.Unique,
     ReferencesTable |-> IF req.ForeignKey.nil THEN <<>> ELSE req.ForeignKey.ReferencesTable,
     ReferencesColumn |-> IF req.ForeignKey.nil THEN <<>> ELSE req.ForeignKey.ReferencesColumn]

ErrInvalidRequest   == "INVALID_REQUEST"
ErrInvalidTableName == "INVALID_TABLE_NAME"
ErrInvalidColName   == "INVALID_COLUMN_NAME"
ErrCreateTable      == "CREATE_TABLE_ERROR"
ErrAddColumn        == "ADD_COLUMN_ERROR"

\* [n]string{c, c, ..}
Rep(c, n) == [k \in 1..n |-> c]

\* Runes the enumerated names are made of: letters, digit, underscore and
\* runes an identifier may not contain.
IdentAlphabet == {"a", "z", "_", "0", "9", "A", " ", "\"", ";", "{", EAcute}

\* Every name of at most MaxLen runes, the empty one included.
ShortNames == UNION {[1..k -> IdentAlphabet] : k \in 0..MaxLen}

\* Names around the 63-byte limit.
LongNames ==
    {Rep("a", 63), Rep("a", 64), Rep("_", 63), <<"0">> \o Rep("a", 62),
     Append(Rep("a", 62), "0"), Append(Rep("a", 62), "A"), Append(Rep("a", 62), EAcute),
     Append(Rep("a", 61), EAcute)}

\* Table names a create-table request or call may carry.
TableNameInputs == ShortNames \cup LongNames \cup {Chars("users"), Chars("Users")}

\* Arguments an add-column request or call may carry.
ColumnTables == {Chars("users"), Chars("Users"), <<>>}
ColumnNames == {Chars("email"), Chars("1st"), <<>>}
ColumnTypes == {Chars("text"), Chars("TEXT"), Chars("double precision"), Chars("int"), <<>>}
RefNames == {Chars("orders"), Chars("Bad;"), <<>>}
ForeignKeys ==
    {NoForeignKey} \cup
    {[nil |-> FALSE, ReferencesTable |-> rt, ReferencesColumn |-> rc] : rt, rc \in RefNames}
AddColumnRequests ==
    [Name : ColumnNames, Type : ColumnTypes, Nullable : BOOLEAN, PrimaryKey : BOOLEAN,
     Unique : BOOLEAN, ForeignKey : ForeignKeys]

\* A statement is built from the arguments of its own call and from nothing
\* shared: the mutation calls are taken one at a time, each after the
\* response to the one before has been sent.
Alone(r) == resp = NoResp /\ \A q \in Reqs \ {r} : pc[q] = "idle"

\* Locals of a mutation handler or call.
DdlLocals(h, op, tableName, req) ==
    [op |-> op, tableName |-> tableName, req |-> req, query |-> <<>>]
        @@ [NoLocals EXCEPT !.handler = h]

\* validateIdentifier: the error response it writes, or OK.
validateIdentifier(name, fieldName, errCode) ==
    IF name = <<>> THEN respondError(ErrMissingField, fieldName \o " is required", Nil)
    ELSE IF ~ValidIdentifier(name) THEN respondError(errCode, "Invalid " \o fieldName \o " format", Nil)
    ELSE [code |-> OK]

\* What a handler answers before it has called the Introspector.
Rejected(body, tableName, req) ==
    body @@ [tableName |-> tableName, request |-> req, executed |-> <<>>]

\* handleCreateTable up to the call of CreateTable.
handleCreateTable(r) ==
    /\ At(r, "idle")
    /\ Alone(r)
    /\ \/ /\ RespondAs(r, "createTable",
                       Rejected(respondError(ErrInvalidRequest, "Invalid request body", "EOF"),
                                <<>>, NoRequest))
          /\ UNCHANGED loc
       \/ \E name \in TableNameInputs :
             LET v == validateIdentifier(name, "table name", ErrInvalidTableName)
             IN IF v.code # OK
                   THEN /\ RespondAs(r, "createTable", Rejected(v, name, NoRequest))
                        /\ UNCHANGED loc
                   ELSE /\ loc' = [loc EXCEPT ![r] = DdlLocals("createTable", "CreateTable",
                                                               name, NoRequest)]
                        /\ Goto(r, "CreateTable")
    /\ UNCHANGED <<phase, queryTimeout, mwVars, pairVars, mu, poolCloseMu, poolVars, histVars>>

\* The checks of handleAddColumn on the decoded request, in order.
validateAddColumn(req) ==
    IF req.Name = <<>> THEN respondError(ErrMissingField, "Column name is required", Nil)
    ELSE IF ~ValidIdentifier(req.Name)
            THEN respondError(ErrInvalidColName, "Invalid column name format", Nil)
    ELSE IF req.Type = <<>> THEN respondError(ErrMissingField, "Column type is required", Nil)
    ELSE IF ~IsValidType(req.Type) THEN respondError(ErrInvalidRequest, "Invalid column type", Nil)
    ELSE [code |-> OK]

\* handleAddColumn up to the call of AddColumn.
handleAddColumn(r) ==
    /\ At(r, "idle")
    /\ Alone(r)
    /\ \E tableName \in ColumnTables :
          LET v == validateIdentifier(tableName, "table name", ErrInvalidTableName)
          IN IF v.code # OK
                THEN /\ RespondAs(r, "addColumn", Rejected(v, tableName, NoRequest))
                     /\ UNCHANGED loc
                ELSE \/ /\ RespondAs(r, "addColumn",
                                     Rejected(respondError(ErrInvalidRequest, "Invalid request body", "EOF"),
                                              tableName, NoRequest))
                        /\ UNCHANGED loc
                     \/ \E req \in AddColumnRequests :
                           LET w == validateAddColumn(req)
                           IN IF w.code # OK
                                 THEN /\ RespondAs(r, "addColumn", Rejected(w, tableName, req))
                                      /\ UNCHANGED loc
                                 ELSE /\ loc' = [loc EXCEPT ![r] = DdlLocals("addColumn", "AddColumn",
                                                                             tableName, req)]
                                      /\ Goto(r, "AddColumn")
    /\ UNCHANGED <<phase, queryTimeout, mwVars, pairVars, mu, poolCloseMu, poolVars, histVars>>

\* Introspector.CreateTable called by any other caller, with any table name.
Introspector_CreateTable(r) ==
    /\ At(r, "idle")
    /\ Alone(r)
    /\ \E name \in TableNameInputs :
          loc' = [loc EXCEPT ![r] = DdlLocals("call", "CreateTable", name, NoRequest)]
    /\ Goto(r, "CreateTable")
    /\ UNCHANGED <<phase, queryTimeout, mwVars, pairVars, mu, poolCloseMu, poolVars, histVars>>

\* Introspector.AddColumn called by any other caller, with any arguments.
Introspector_AddColumn(r) ==
    /\ At(r, "idle")
    /\ Alone(r)
    /\ \E tableName \in ColumnTables, req \in AddColumnRequests :
          loc' = [loc EXCEPT ![r] = DdlLocals("call", "AddColumn", tableName, req)]
    /\ Goto(r, "AddColumn")
    /\ UNCHANGED <<phase, queryTimeout, mwVars, pairVars, mu, poolCloseMu, poolVars, histVars>>

\* What the caller of CreateTable / AddColumn gets back and, for a handler,
\* the response it writes; with it the statement built, the error and the
\* statements executed on the pool.
OpResult(r, query, err, executed) ==
    (IF loc[r].handler = "call"
        THEN [code |-> IF err = Nil THEN OK ELSE "ERROR"]
     ELSE IF loc[r].op = "CreateTable"
        THEN IF err # Nil THEN respondError(ErrCreateTable, "Failed to create table", err)
                          ELSE [code |-> OK, table |-> loc[r].tableName]
        ELSE IF err # Nil THEN respondError(ErrAddColumn, "Failed to add column", err)
                          ELSE [code |-> OK, column |-> loc[r].req.Name])
    @@ [op |-> loc[r].op, tableName |-> loc[r].tableName, request |-> loc[r].req,
        query |-> query, err |-> err, executed |-> executed]

\* Build going on to pool.Exec whether or not the builder returned an error.
Build_ExecAnyway(r, res) ==
    /\ RLock(r)
    /\ loc' = [loc EXCEPT ![r].query = res.query]
    /\ Goto(r, "getPool")

\* The Introspector method up to getPool's read lock: build the statement,
\* return the error if there is one, otherwise call getPool.
Build(r, res) ==
    IF res.err # Nil
       THEN /\ Respond(r, OpResult(r, res.query, res.err, loc[r].queries))
            /\ Return(r)
            /\ UNCHANGED mu
       ELSE /\ RLock(r)
            /\ loc' = [loc EXCEPT ![r].query = res.query]
            /\ Goto(r, "getPool")

\* Introspector.CreateTable up to getPool.
CreateTable(r) ==
    /\ At(r, "CreateTable")
    /\ Build(r, BuildCreateTableDDL(loc[r].tableName))
    /\ UNCHANGED <<phase, queryTimeout, mwVars, pairVars, poolCloseMu, poolVars, histVars>>

\* Introspector.AddColumn up to getPool.
AddColumn(r) ==
    /\ At(r, "AddColumn")
    /\ Build(r, BuildAddColumnDDL(loc[r].tableName, ColumnDefOf(loc[r].req)))
    /\ UNCHANGED <<phase, queryTimeout, mwVars, pairVars, poolCloseMu, poolVars, histVars>>

\* pool.Exec(ctx, query): the statement goes to the database, which runs or
\* rejects it.
Exec(r) ==
    /\ At(r, "Exec")
    /\ \E ok \in QueryOutcomes(loc[r].borrowed) :
          Respond(r, OpResult(r, loc[r].query, IF ok THEN Nil ELSE "exec failed",
                              Append(loc[r].queries, [q |-> "exec", pool |-> loc[r].borrowed,
                                                      sql |-> loc[r].query])))
    /\ Return(r)
    /\ UNCHANGED <<phase, queryTimeout, mwVars, pairVars, mu, poolCloseMu, poolVars, histVars>>

\* The response just written has gone out to the client.
Sent ==
    /\ phase = "running"
    /\ resp # NoResp
    /\ resp' = NoResp
    /\ UNCHANGED <<phase, queryTimeout, mwVars, pairVars, mu, poolCloseMu, poolVars, pc, loc, histVars>>

NextDdl ==
    \/ \E r \in Reqs : handleCreateTable(r)
    \/ \E r \in Reqs : handleAddColumn(r)
    \/ \E r \in Reqs : Introspector_CreateTable(r)
    \/ \E r \in Reqs : Introspector_AddColumn(r)
    \/ \E r \in Reqs : CreateTable(r)
    \/ \E r \in Reqs : AddColumn(r)
    \/ \E r \in Reqs : getPool_Return(r)
    \/ \E r \in Reqs : Exec(r)
    \/ Sent

DdlSpec == Init /\ [][NextDdl]_vars

\* ---------------------------------------------------- DDL properties
Lower == {"a", "b", "c", "d", "e", "f", "g", "h", "i", "j", "k", "l", "m", "n", "o", "p", "q",
          "r", "s", "t", "u", "v", "w", "x", "y", "z"}
Digits == {"0", "1", "2", "3", "4", "5", "6", "7", "8", "9"}

\* ^[a-z_][a-z0-9_]*$ with 1 to 63 characters (all of one byte).
IsIdentifierText(s) ==
    /\ Len(s) >= 1 /\ Len(s) <= 63
    /\ s[1] \in Lower \cup {"_"}
    /\ \A k \in 2..Len(s) : s[k] \in Lower \cup Digits \cup {"_"}

\* t occurs in s.
HasSub(s, t) == \E i \in 0..(Len(s) - Len(t)) : SubSeq(s, i + 1, i + Len(t)) = t

\* The response is what CreateTable / AddColumn returned.
IsResult == "op" \in DOMAIN resp

\* The error came from validation, not from the database.
ValidationError(err) == err # Nil /\ err # "exec failed"

\* C13: ValidIdentifier is true exactly for the names of 1..63 bytes made of
\* a lowercase letter or underscore followed by lowercase letters, digits and
\* underscores: it agrees with that pattern on every table name CreateTable
\* is called with, CreateTable returns the invalid-name error exactly for the
\* other names, and the handler rejects exactly those before calling it.
C13_ValidIdentifierExact ==
    /\ \A r \in Reqs : pc[r] = "CreateTable" =>
          (ValidIdentifier(loc[r].tableName) <=> IsIdentifierText(loc[r].tableName))
    /\ \A r \in Reqs : (pc[r] = "CreateTable" /\ loc[r].handler = "createTable") =>
          IsIdentifierText(loc[r].tableName)
    /\ (IsResult /\ resp.op = "CreateTable") =>
          (resp.err = ErrInvalidTable <=> ~IsIdentifierText(resp.tableName))
    /\ (resp.kind = "createTable" /\ resp.code \in {ErrMissingField, ErrInvalidTableName}) =>
          /\ ~IsIdentifierText(resp.tableName)
          /\ resp.code = ErrMissingField <=> resp.tableName = <<>>

\* C13 witness: a 63-byte name was accepted by CreateTable.
C13_Witness ==
    /\ IsResult /\ resp.op = "CreateTable"
    /\ Len(resp.tableName) = 63
    /\ ~ValidationError(resp.err)

\* C14: for a valid table name n the statement built and sent to the pool is
\* exactly CREATE TABLE "n" (id SERIAL PRIMARY KEY), with no error, and it is
\* one statement.
C14_CreateTableText ==
    /\ \A r \in Reqs : (pc[r] = "CreateTable" /\ IsIdentifierText(loc[r].tableName)) =>
          BuildCreateTableDDL(loc[r].tableName) =
             [query |-> Chars("CREATE TABLE \"") \o loc[r].tableName
                           \o Chars("\" (id SERIAL PRIMARY KEY)"),
              err |-> Nil]
    /\ \A r \in Reqs : (pc[r] = "Exec" /\ loc[r].op = "CreateTable") =>
          /\ loc[r].query = Chars("CREATE TABLE \"") \o loc[r].tableName
                               \o Chars("\" (id SERIAL PRIMARY KEY)")
          /\ ~HasSub(loc[r].query, <<";">>)

\* C14 witness: the statement for the table users is about to be executed.
C14_Witness ==
    \E r \in Reqs :
        /\ pc[r] = "Exec" /\ loc[r].op = "CreateTable"
        /\ loc[r].tableName = Chars("users")
        /\ loc[r].query = Chars("CREATE TABLE \"users\" (id SERIAL PRIMARY KEY)")

\* C15: a builder never returns a statement together with an error: with an
\* error the text is empty, with a text there is no error; and a call that
\* returned a validation error returned no statement.
C15_NoPartialStatement ==
    /\ \A r \in Reqs : pc[r] = "CreateTable" =>
          LET res == BuildCreateTableDDL(loc[r].tableName)
          IN /\ res.err # Nil => res.query = <<>>
             /\ res.query # <<>> => res.err = Nil
    /\ \A r \in Reqs : pc[r] = "AddColumn" =>
          LET res == BuildAddColumnDDL(loc[r].tableName, ColumnDefOf(loc[r].req))
          IN /\ res.err # Nil => res.query = <<>>
             /\ res.query # <<>> => res.err = Nil
    /\ (IsResult /\ ValidationError(resp.err)) => resp.query = <<>>

\* C15 witness: CreateTable for the table name Users returned the validation
\* error and no statement.
C15_Witness ==
    /\ IsResult /\ resp.op = "CreateTable"
    /\ resp.tableName = Chars("Users")
    /\ resp.err = ErrInvalidTable
    /\ resp.query = <<>>

\* The request carries both halves of a foreign-key reference.
HasBothRefs(req) ==
    /\ ~req.ForeignKey.nil
    /\ req.ForeignKey.ReferencesTable # <<>>
    /\ req.ForeignKey.ReferencesColumn # <<>>

\* Arguments every check of AddColumn accepts.
ValidAddColumnArgs(tableName, req) ==
    /\ IsIdentifierText(tableName)
    /\ IsIdentifierText(req.Name)
    /\ req.Type \in allowedTypesMap
    /\ HasBothRefs(req) =>
          /\ IsIdentifierText(req.ForeignKey.ReferencesTable)
          /\ IsIdentifierText(req.ForeignKey.ReferencesColumn)

\* The ALTER TABLE text the clause rules prescribe for a request.
AddColumnText(tableName, req) ==
    Chars("ALTER TABLE \"") \o tableName \o Chars("\" ADD COLUMN \"") \o req.Name
        \o Chars("\" ") \o req.Type
        \o (IF ~req.Nullable THEN Chars(" NOT NULL") ELSE <<>>)
        \o (IF req.PrimaryKey THEN Chars(" PRIMARY KEY") ELSE <<>>)
        \o (IF req.Unique /\ ~req.PrimaryKey THEN Chars(" UNIQUE") ELSE <<>>)
        \o (IF HasBothRefs(req)
               THEN Chars(" REFERENCES \"") \o req.ForeignKey.ReferencesTable \o Chars("\"(\"")
                       \o req.ForeignKey.ReferencesColumn \o Chars("\")")
               ELSE <<>>)

\* C16: for valid arguments AddColumn builds, without error, exactly ALTER
\* TABLE "table" ADD COLUMN "column" type followed by NOT NULL (unless the
\* request is nullable), PRIMARY KEY, UNIQUE and REFERENCES in that order,
\* separated by single spaces; that text is what goes to the pool.
C16_AddColumnText ==
    /\ \A r \in Reqs : (pc[r] = "AddColumn" /\ ValidAddColumnArgs(loc[r].tableName, loc[r].req)) =>
          BuildAddColumnDDL(loc[r].tableName, ColumnDefOf(loc[r].req)) =
             [query |-> AddColumnText(loc[r].tableName, loc[r].req), err |-> Nil]
    /\ \A r \in Reqs : (pc[r] = "Exec" /\ loc[r].op = "AddColumn") =>
          /\ loc[r].query = AddColumnText(loc[r].tableName, loc[r].req)
          /\ HasSub(loc[r].query, Chars(" NOT NULL")) <=> ~loc[r].req.Nullable
          /\ ~HasSub(loc[r].query, Chars("  "))

\* C16 witness: the statement for (users, email, text, not nullable) is about
\* to be executed.
C16_Witness ==
    \E r \in Reqs :
        /\ pc[r] = "Exec" /\ loc[r].op = "AddColumn"
        /\ loc[r].req = [Name |-> Chars("email"), Type |-> Chars("text"), Nullable |-> FALSE,
                         PrimaryKey |-> FALSE, Unique |-> FALSE, ForeignKey |-> NoForeignKey]
        /\ loc[r].query = Chars("ALTER TABLE \"users\" ADD COLUMN \"email\" text NOT NULL")

\* C17: no ALTER TABLE statement has both PRIMARY KEY and UNIQUE: UNIQUE is in
\* the statement exactly when the request asks for unique and not for primary
\* key, and PRIMARY KEY exactly when it asks for primary key.
C17_NeverPrimaryKeyAndUnique ==
    \A r \in Reqs : (pc[r] = "Exec" /\ loc[r].op = "AddColumn") =>
        /\ ~(HasSub(loc[r].query, Chars("PRIMARY KEY")) /\ HasSub(loc[r].query, Chars("UNIQUE")))
        /\ HasSub(loc[r].query, Chars("UNIQUE")) <=> (loc[r].req.Unique /\ ~loc[r].req.PrimaryKey)
        /\ HasSub(loc[r].query, Chars("PRIMARY KEY")) <=> loc[r].req.PrimaryKey

\* C17 witness: a statement was built for a request with primaryKey and
\* unique both true.
C17_Witness ==
    \E r \in Reqs :
        /\ pc[r] = "Exec" /\ loc[r].op = "AddColumn"
        /\ loc[r].req.PrimaryKey /\ loc[r].req.Unique
        /\ HasSub(loc[r].query, Chars(" PRIMARY KEY"))

\* A half of the request's foreign-key reference is given and is not a valid
\* identifier.
PresentInvalidRef(req) ==
    /\ ~req.ForeignKey.nil
    /\ \/ /\ req.ForeignKey.ReferencesTable # <<>>
          /\ ~IsIdentifierText(req.ForeignKey.ReferencesTable)
       \/ /\ req.ForeignKey.ReferencesColumn # <<>>
          /\ ~IsIdentifierText(req.ForeignKey.ReferencesColumn)

\* C18 (as claimed): a request whose reference table or reference column is
\* present and invalid never gets as far as a statement.
C18_PresentRefAlwaysValidated ==
    \A r \in Reqs : (pc[r] = "Exec" /\ loc[r].op = "AddColumn") => ~PresentInvalidRef(loc[r].req)

\* C18 (amended): when both halves of the reference are given, each is
\* validated and the call fails with no statement and nothing executed if
\* either is invalid, also when it came through the handler; when only one
\* half is given neither is validated and the statement has no REFERENCES
\* clause; an invalid reference name is never part of a statement.
C18_RefValidatedWhenBothGiven ==
    /\ \A r \in Reqs : (pc[r] = "Exec" /\ loc[r].op = "AddColumn") =>
          /\ HasBothRefs(loc[r].req) =>
                /\ IsIdentifierText(loc[r].req.ForeignKey.ReferencesTable)
                /\ IsIdentifierText(loc[r].req.ForeignKey.ReferencesColumn)
          /\ HasSub(loc[r].query, Chars("REFERENCES")) <=> HasBothRefs(loc[r].req)
          /\ \A n \in RefNames : (n # <<>> /\ ~IsIdentifierText(n)) => ~HasSub(loc[r].query, n)
    /\ (IsResult /\ resp.op = "AddColumn" /\ HasBothRefs(resp.request) /\ PresentInvalidRef(resp.request)) =>
          /\ ValidationError(resp.err)
          /\ resp.query = <<>>
          /\ resp.executed = <<>>
    /\ (IsResult /\ resp.err \in {"invalid foreign key table name", "invalid foreign key column name"}) =>
          HasBothRefs(resp.request) /\ PresentInvalidRef(resp.request)

\* C18 witness: a request that passed the handler's checks was refused by
\* AddColumn for its reference table, and nothing was executed.
C18_Witness ==
    /\ resp.kind = "addColumn" /\ resp.code = ErrAddColumn
    /\ resp.err = "invalid foreign key table name"
    /\ resp.executed = <<>>

\* The part of an ALTER TABLE statement up to and including the type.
AddColumnHead(tableName, req) ==
    Chars("ALTER TABLE \"") \o tableName \o Chars("\" ADD COLUMN \"") \o req.Name
        \o Chars("\" ") \o req.Type

\* C19: a type is accepted only if it is, character for character, a name of
\* the allow-list: any other type makes AddColumn fail with the unsupported
\* type error and no statement, and the type of a statement is the type of
\* the request, never another one.
C19_TypeExactOrRejected ==
    /\ \A r \in Reqs : (pc[r] = "AddColumn" /\ loc[r].req.Type \notin allowedTypesMap) =>
          LET res == BuildAddColumnDDL(loc[r].tableName, ColumnDefOf(loc[r].req))
          IN res.err # Nil /\ res.query = <<>>
    /\ \A r \in Reqs : (pc[r] = "Exec" /\ loc[r].op = "AddColumn") =>
          /\ \E k \in 1..Len(AllowedTypes) : loc[r].req.Type = Chars(AllowedTypes[k])
          /\ SubSeq(loc[r].query, 1, Len(AddColumnHead(loc[r].tableName, loc[r].req)))
                = AddColumnHead(loc[r].tableName, loc[r].req)
    /\ (IsResult /\ resp.op = "AddColumn" /\ IsIdentifierText(resp.tableName)
           /\ IsIdentifierText(resp.request.Name)) =>
          (resp.err = "unsupported column type" <=> resp.request.Type \notin allowedTypesMap)
    /\ (resp.kind = "addColumn" /\ resp.code = ErrInvalidRequest /\ resp.message = "Invalid column type") =>
          resp.request.Type \notin allowedTypesMap

\* C19 witness: AddColumn refused the type TEXT for a valid table and column.
C19_Witness ==
    /\ IsResult /\ resp.op = "AddColumn"
    /\ resp.request.Type = Chars("TEXT")
    /\ resp.err = "unsupported column type"
    /\ resp.executed = <<>>

\* Arguments with an invalid table name, column name or type, or with a
\* foreign-key reference (both halves given) one half of which is invalid.
InvalidArgs(op, tableName, req) ==
    \/ ~IsIdentifierText(tableName)
    \/ /\ op = "AddColumn"
       /\ \/ ~IsIdentifierText(req.Name)
          \/ req.Type \notin allowedTypesMap
          \/ HasBothRefs(req) /\ PresentInvalidRef(req)

AllDbErrorTexts == DbErrorTexts \cup {"closed pool"}

\* The response is an error of one of the pool-facing handlers.
IsError(rs) == rs.kind \in {"switch", "list", "schema"} /\ rs.code \notin {"none", OK}

\* The code and message of each handler for each failure category: where the
\* handler stood, whether an internal error came with the failure, and (for
\* the switch) whether the candidate pool had been created.
ClientError(kind, at, failed, created) ==
    IF kind = "schema" THEN [code |-> ErrSchemaError, message |-> "Failed to load schema"]
    ELSE IF kind = "list" THEN [code |-> ErrDatabaseError, message |-> "Failed to list databases"]
    ELSE IF at = "idle" THEN [code |-> ErrMissingField, message |-> "Database name is required"]
    ELSE IF at = "ListDatabases" /\ failed
            THEN [code |-> ErrDatabaseError, message |-> "Failed to validate database"]
    ELSE IF at = "ListDatabases"
            THEN [code |-> ErrUnknownDatabase, message |-> "Database not found"]
    ELSE IF created
            THEN [code |-> ErrConnectionError, message |-> "Failed to verify database connection"]
            ELSE [code |-> ErrConnectionError, message |-> "Failed to connect to database"]

\* C21: the error body sent to the caller never contains the text of a
\* database error, in its code or in its message; and for a handler and a
\* failure category the code and the message are fixed constants, the same
\* whatever the text of the internal error that was logged.
C21_ErrorBodyFixed ==
    /\ [](IsError(resp) =>
            \A e \in AllDbErrorTexts :
                /\ ~HasSub(Chars(resp.message), Chars(e))
                /\ ~HasSub(Chars(resp.code), Chars(e)))
    /\ [][IsError(resp') =>
            [code |-> resp'.code, message |-> resp'.message]
                = ClientError(resp'.kind, pc[resp'.req], resp'.logged # Nil,
                              loc[resp'.req].cand # NoPool)]_vars

\* C21 witness: a schema request whose column query failed with a driver
\* error was answered SCHEMA_ERROR / "Failed to load schema", the driver's
\* text having gone to the log.
C21_Witness ==
    /\ resp.kind = "schema" /\ resp.code = ErrSchemaError
    /\ resp.message = "Failed to load schema"
    /\ resp.logged = Errorf("failed to get columns", "context deadline exceeded")

\* Positions at which a request has a database round trip in flight.
RoundTrips == {"ListDatabases", "getAllTables", "getAllColumns", "getAllForeignKeys", "Exec"}

\* i.mu.Lock() would return at once.
CanLock == mu.writer = NoReq /\ mu.readers = {}

\* C22: the pair lock is held only inside getPool (read) and SetPool
\* (write), never by a request that has a round trip in flight; so a
\* SetPool waiting for the lock waits only for requests that are inside
\* getPool or SetPool: when every other request is idle or in a round trip
\* the lock is free.
C22_LockOnlyForCopy ==
    /\ \A r \in mu.readers : pc[r] = "getPool"
    /\ mu.writer # NoReq => pc[mu.writer] = "SetPool"
    /\ \A r \in Reqs : pc[r] \in RoundTrips => r \notin mu.readers /\ mu.writer # r
    /\ \A r \in Reqs :
          (pc[r] = "SetPool_Lock" /\ \A q \in Reqs \ {r} : pc[q] \in RoundTrips \cup {"idle"})
              => CanLock

\* C22 witness: a switch holds the write lock inside SetPool while another
\* request has its column query in flight on the pool it copied out.
C22_Witness ==
    \E r, q \in Reqs :
        /\ pc[r] = "SetPool" /\ mu.writer = r
        /\ pc[q] = "getAllColumns" /\ loc[q].borrowed = pool

\* Positions at which a switch request is creating or pinging its candidate.
Connecting == {"NewPool", "Ping"}

\* Positions of a switch request from h.poolCloseMu.Lock() to its response.
Swapping == {"poolCloseMu_Lock"} \cup InSwap

\* C23: while a switch request creates or pings its candidate it holds
\* neither the pair lock nor the close lock, so that with every other
\* request idle, connecting or in a round trip both locks are free; a
\* request reaches the close lock and SetPool only from a ping that
\* succeeded, and the pool a SetPool installs is the pinged, unclosed
\* candidate of the request making the call.
C23_ConnectOutsideLocks ==
    /\ [](\A r \in Reqs : pc[r] \in Connecting =>
            /\ poolCloseMu # r /\ mu.writer # r /\ r \notin mu.readers
            /\ (\A q \in Reqs \ {r} : pc[q] \in RoundTrips \cup Connecting \cup {"idle"})
                  => CanLock /\ poolCloseMu = NoReq)
    /\ [][\A r \in Reqs :
            /\ (pc'[r] \in Swapping /\ pc[r] \notin Swapping) =>
                  /\ pc[r] = "Ping" /\ pc'[r] = "poolCloseMu_Lock"
                  /\ resp' = NoResp
                  /\ loc'[r].cand \in Pools /\ closeCalls'[loc'[r].cand] = 0
            /\ (pc[r] = "SetPool" /\ pc'[r] = "go_Close") =>
                  /\ pool' = loc[r].cand /\ closeCalls[loc[r].cand] = 0
                  /\ poolCloseMu = r]_vars
    /\ [][pool' # pool => \E r \in Reqs : pc[r] = "SetPool" /\ pc'[r] = "go_Close"]_vars

\* C23 witness: a switch is pinging its candidate, holding no lock, while
\* another switch holds both locks inside SetPool.
C23_Witness ==
    \E r, q \in Reqs :
        /\ pc[r] = "Ping" /\ loc[r].cand \in Pools
        /\ pc[q] = "SetPool" /\ mu.writer = q /\ poolCloseMu = q

\* ===================================================================
\* REFERENCES clause
\* ===================================================================
\* The REFERENCES clause for the request's foreign key.
ReferencesClause(req) ==
    Chars(" REFERENCES \"") \o req.ForeignKey.ReferencesTable \o Chars("\"(\"")
        \o req.ForeignKey.ReferencesColumn \o Chars("\")")

\* C24: the statement BuildAddColumnDDL returns has a REFERENCES clause
\* exactly when the reference table and the reference column are both
\* supplied and non-empty, and then it is the clause for that table and
\* column, at the end of the statement; with no foreign key, or with either
\* half empty, arguments that are otherwise valid give a statement without
\* REFERENCES and no error.
C24_ReferencesIffBoth ==
    /\ \A r \in Reqs : (pc[r] = "getPool" /\ loc[r].op = "AddColumn") =>
          LET c == ReferencesClause(loc[r].req)
              n == Len(loc[r].query)
          IN IF HasBothRefs(loc[r].req)
                THEN SubSeq(loc[r].query, n - Len(c) + 1, n) = c
                ELSE ~HasSub(loc[r].query, Chars("REFERENCES"))
    /\ \A r \in Reqs : pc[r] = "AddColumn" =>
        LET req == loc[r].req
            res == BuildAddColumnDDL(loc[r].tableName, ColumnDefOf(req))
            n == Len(res.query)
            c == ReferencesClause(req)
        IN /\ res.err = Nil =>
                /\ HasSub(res.query, Chars("REFERENCES")) <=> HasBothRefs(req)
                /\ HasBothRefs(req) => SubSeq(res.query, n - Len(c) + 1, n) = c
           /\ (/\ ~HasBothRefs(req)
               /\ IsIdentifierText(loc[r].tableName) /\ IsIdentifierText(req.Name)
               /\ req.Type \in allowedTypesMap) =>
                /\ res.err = Nil
                /\ ~HasSub(res.query, Chars("REFERENCES"))

\* C24 witness: AddColumn has built the statement for a foreign key with a
\* reference table and an empty reference column, and the statement has no
\* REFERENCES clause.
C24_Witness ==
    \E r \in Reqs :
        /\ pc[r] = "getPool" /\ loc[r].op = "AddColumn"
        /\ ~loc[r].req.ForeignKey.nil
        /\ loc[r].req.ForeignKey.ReferencesTable = Chars("orders")
        /\ loc[r].req.ForeignKey.ReferencesColumn = <<>>
        /\ loc[r].query # <<>> /\ ~HasSub(loc[r].query, Chars("REFERENCES"))

\* ===================================================================
\* One GetSchema call, one pool
\* ===================================================================
\* Positions of a request inside GetSchema, after its getPool.
InGetSchema == {"getAllTables", "getAllColumns", "getAllForeignKeys"}

\* The tables of a schema are those of database db, with its columns.
SchemaOf(tables, db) ==
    /\ Len(tables) = Len(TablesOf(db))
    /\ \A k \in 1..Len(tables) :
          /\ tables[k].Name = TablesOf(db)[k]
          /\ tables[k].Columns = ColumnsOf(db)[tables[k].Name]
          /\ \A c \in 1..Len(tables[k].Columns) : tables[k].Columns[c].Db = db

\* C25: a GetSchema call copies the pool out once, the pool that is live at
\* that moment, keeps it to its end and runs every one of its queries on
\* it; the schema it returns is made of the tables and columns of that
\* pool's database only, whatever swaps happen between its queries.
C25_OneCallOnePool ==
    /\ [](\A r \in Reqs : pc[r] \in InGetSchema =>
            \A k \in 1..Len(loc[r].queries) : loc[r].queries[k].pool = loc[r].borrowed)
    /\ []((resp.kind = "schema" /\ resp.code = OK) =>
            /\ \A k \in 1..Len(resp.queries) : resp.queries[k].pool = resp.queries[1].pool
            /\ SchemaOf(resp.schema.Tables, poolDb[resp.queries[1].pool]))
    /\ [][\A r \in Reqs :
            /\ (pc[r] = "getPool" /\ pc'[r] = "getAllTables") => loc'[r].borrowed = pool
            /\ (pc[r] \in InGetSchema /\ pc'[r] \in InGetSchema) =>
                  loc'[r].borrowed = loc[r].borrowed]_vars
    /\ [][(resp'.kind = "schema" /\ resp'.code = OK) =>
            resp'.queries[1].pool = loc[resp'.req].borrowed]_vars

\* C25 witness: a schema came back from three queries on the pool of
\* database b, complete, after the engine had been switched to another pool.
C25_Witness ==
    /\ resp.kind = "schema" /\ resp.code = OK
    /\ Len(resp.queries) = 3
    /\ resp.queries[1].pool # pool
    /\ Len(resp.schema.Tables) = 2
    /\ resp.schema.Tables[2].Columns = ColumnsOf(InitialDb)["t2"]

\* ===================================================================
\* Candidate pools
\* ===================================================================
\* No request is inside handleSwitchDatabase.
NoSwitchInFlight == \A r \in Reqs : loc[r].handler # "switch"

\* C26 (as claimed): whenever no switch request is in flight, Close has been
\* invoked on every pool ever created other than the live one.
C26_NoPoolLeaked ==
    (phase = "running" /\ NoSwitchInFlight) => \A p \in Pools \ {pool} : closeCalls[p] > 0

\* C26 (amended): whenever no switch request is in flight, every pool ever
\* created other than the live one has had Close invoked on it or is the
\* old pool of a finished switch whose closing goroutine has been started
\* and has not run yet; at any time a pool that is neither is the candidate
\* or the old pool of a switch request in flight.  A candidate whose ping
\* fails has had Close invoked when the error response is written, and is
\* never the live pool.
C26_NoPoolLeakedOrClosing ==
    /\ []((phase = "running" /\ NoSwitchInFlight) =>
            \A p \in Pools \ {pool} : closeCalls[p] > 0 \/ closer[p] = "spawned")
    /\ [](phase = "running" =>
            \A p \in Pools \ {pool} :
                \/ closeCalls[p] > 0 \/ closer[p] = "spawned"
                \/ \E r \in Reqs : loc[r].handler = "switch" /\ p \in {loc[r].cand, loc[r].oldPool})
    /\ [][(resp'.code = ErrConnectionError /\ loc[resp'.req].cand # NoPool) =>
            /\ closeCalls'[loc[resp'.req].cand] = 1
            /\ pool' = pool /\ pool # loc[resp'.req].cand]_vars
    /\ [](PingFailed \cap {pool} = {})

\* C26 witness: no switch is in flight, one candidate failed its ping and
\* was closed by its handler, and the initial pool was replaced by another
\* candidate and closed by the goroutine of that switch.
C26_Witness ==
    /\ phase = "running" /\ NoSwitchInFlight
    /\ PingFailed # {}
    /\ pool \notin PingFailed \cup {InitialPool}
    /\ closer[InitialPool] = "done" /\ closeCalls[InitialPool] = 1

\* ===================================================================
\* Rejected switch requests
\* ===================================================================
\* The name is one of those the server lists.
Listed(name) == \E k \in 1..Len(ServerDatabases) : ServerDatabases[k] = name

\* C27: a switch request whose name is empty is answered MISSING_FIELD at
\* once, and one whose name is not in the list ListDatabases returns is
\* answered UNKNOWN_DATABASE (or DATABASE_ERROR if the list query fails);
\* such a request never gets to creating a pool or to SetPool, the step
\* that answers it leaves the live pair and the set of pools as they were,
\* and every pool created or installed is for a listed name.
C27_InvalidNameRejected ==
    /\ [](\A r \in Reqs : (loc[r].handler = "switch" /\ ~Listed(loc[r].reqName)) =>
            /\ pc[r] \in {"getPool", "ListDatabases"}
            /\ loc[r].cand = NoPool /\ loc[r].oldPool = NoPool)
    /\ [](\A p \in Pools : Listed(poolDb[p]))
    /\ [](\A k \in 1..Len(swapLog) : Listed(swapLog[k].name))
    /\ [][(resp'.kind = "switch" /\ resp'.code \in {ErrMissingField, ErrUnknownDatabase}) =>
            /\ pool' = pool /\ dbName' = dbName
            /\ poolDb' = poolDb /\ swapLog' = swapLog
            /\ resp'.code = ErrMissingField <=> pc[resp'.req] = "idle"
            /\ resp'.code = ErrUnknownDatabase =>
                  pc[resp'.req] = "ListDatabases" /\ ~Listed(loc[resp'.req].reqName)]_vars
    /\ [][\A r \in Reqs :
            (/\ loc[r].handler = "switch" /\ ~Listed(loc[r].reqName)
             /\ pc[r] = "ListDatabases" /\ pc'[r] # "ListDatabases" /\ phase' = "running") =>
                /\ pc'[r] = "idle" /\ resp'.req = r
                /\ resp'.code \in {ErrUnknownDatabase, ErrDatabaseError}]_vars

\* C27 witness: a switch to the unlisted name zz was answered
\* UNKNOWN_DATABASE after a successful switch to a, and the engine is still
\* on the pair of that switch.
C27_Witness ==
    /\ resp.kind = "switch" /\ resp.code = ErrUnknownDatabase
    /\ resp.message = "Database not found"
    /\ Len(swapLog) = 1 /\ dbName = "a" /\ pool = swapLog[1].new
    /\ Cardinality(Pools) = 2

\* ===================================================================
\* Request-security middleware: rate limiter, CSRF gate, routes
\* ===================================================================
\* The engine's variables, which no middleware step touches.
engineVars == <<phase, queryTimeout, pairVars, mu, poolCloseMu, poolVars, histVars>>

\* Calls let through during the window that ends at time t.
Recent(log, t) == SelectSeq(log, LAMBDA e : t - e.at < window)

\* Time passes.
Elapse ==
    /\ phase = "running"
    /\ clock < MaxNow
    /\ clock' = clock + 1
    /\ allowLog' = Recent(allowLog, clock + 1)
    /\ resp' = NoResp
    /\ UNCHANGED <<engineVars, pc, loc, csrf, rateLimiter, issued>>

\* ------------------------------------------------------ CSRFMiddleware
\* rotate: on a generation error nothing changes; otherwise previousToken =
\* currentToken, currentToken = newToken, lastRotation = time.Now().
rotate(newToken, ok) ==
    IF ~ok THEN csrf
    ELSE [csrf EXCEPT !.previousToken = csrf.currentToken,
                      !.currentToken = newToken,
                      !.lastRotation = clock]

\* rotationLoop, case <-ticker.C: the tick that is due is taken and rotate
\* runs; generateSecureToken succeeds or fails.
rotationLoop ==
    /\ phase = "running"
    /\ clock >= csrf.ticker
    /\ \E ok \in BOOLEAN :
          LET newToken == generateSecureToken(Len(issued) + 1)
          IN /\ csrf' = [rotate(newToken, ok) EXCEPT !.ticker = @ + rotationInterval]
             /\ issued' = IF ok THEN Append(issued, [token |-> newToken, at |-> clock]) ELSE issued
    /\ resp' = NoResp
    /\ UNCHANGED <<engineVars, pc, loc, clock, rateLimiter, allowLog>>

\* isValidToken accepting the previous token whatever time has passed.
isValidToken_NoGrace(token) ==
    \/ token = csrf.currentToken
    \/ csrf.previousToken # "" /\ token = csrf.previousToken

\* isValidToken: ConstantTimeCompare is 1 exactly for equal byte strings.
isValidToken(token) ==
    \/ token = csrf.currentToken
    \/ /\ csrf.previousToken # "" /\ clock - csrf.lastRotation < gracePeriod
       /\ token = csrf.previousToken

\* r.Method == "POST" || "PUT" || "DELETE" || "PATCH"
StateChanging == {"POST", "PUT", "DELETE", "PATCH"}

\* --------------------------------------------------------- RateLimiter
\* for _, t := range times { if now.Sub(t) < rl.window { valid = append(valid, t) } }
Valid(times) == SelectSeq(times, LAMBDA t : clock - t < window)

\* The entries the eviction loop can end on: those whose first timestamp is
\* the oldest; the map is ranged over in any order and the first of them met
\* is kept.
Oldest(requests) ==
    {e \in DOMAIN requests :
        /\ Len(requests[e]) > 0
        /\ \A f \in DOMAIN requests : Len(requests[f]) > 0 => requests[e][1] <= requests[f][1]}

\* delete(rl.requests, ip)
Without(requests, ip) == [f \in DOMAIN requests \ {ip} |-> requests[f]]

\* rl.requests[ip] = valid
Put(requests, ip, valid) ==
    [f \in DOMAIN requests \cup {ip} |-> IF f = ip THEN valid ELSE requests[f]]

\* The maps Allow can go on with after its eviction step.
Evict(requests, ip) ==
    IF ip \notin DOMAIN requests /\ Cardinality(DOMAIN requests) >= maxEntries /\ Oldest(requests) # {}
       THEN {Without(requests, e) : e \in Oldest(requests)}
       ELSE {requests}

\* Allow(ip), under rl.mu: its result and the map it leaves.
Allow(ip) ==
    LET times == IF ip \in DOMAIN rateLimiter.requests THEN rateLimiter.requests[ip] ELSE <<>>
        valid == Valid(times)
    IN IF Len(valid) >= limit
          THEN {[ok |-> FALSE, requests |-> rateLimiter.requests]}
          ELSE {[ok |-> TRUE, requests |-> Put(kept, ip, Append(valid, clock))] :
                    kept \in Evict(rateLimiter.requests, ip)}

\* The map after Allow, and the record of the call in the history.
Allowed(ip, out) ==
    /\ rateLimiter' = [rateLimiter EXCEPT !.requests = out.requests]
    /\ allowLog' = IF out.ok THEN Append(Recent(allowLog, clock), [ip |-> ip, at |-> clock])
                             ELSE allowLog

\* cleanup, case <-ticker.C: expired timestamps are dropped and addresses
\* left with none are deleted.
cleanup ==
    /\ phase = "running"
    /\ clock >= rateLimiter.ticker
    /\ LET kept == {ip \in DOMAIN rateLimiter.requests : Len(Valid(rateLimiter.requests[ip])) # 0}
       IN rateLimiter' = [requests |-> [ip \in kept |-> Valid(rateLimiter.requests[ip])],
                          ticker |-> rateLimiter.ticker + window]
    /\ resp' = NoResp
    /\ UNCHANGED <<engineVars, pc, loc, clock, csrf, issued, allowLog>>

\* ------------------------------------------------------------ requests
Methods == {"GET"} \cup StateChanging
Paths == {"/api/csrf-token", "/api/schema", "/api/database", "/api/tables",
          "/api/tables/users/columns", "/index.html"}
\* r.RemoteAddr of the client of the gate, and of the clients of the limiter.
GateAddrs == {"10.0.0.1:50000"}
RemoteAddrs == {"10.0.0.1:50000", "10.0.0.2:50000", "10.0.0.3:50000"}
\* X-CSRF-Token values a client can send: none, one it made up, one it got.
HeaderTokens == {"", "forged"} \cup {issued[k].token : k \in 1..Len(issued)}

\* strings.HasPrefix
HasPrefix(str, prefix) ==
    Len(str) >= Len(prefix) /\ SubSeq(Chars(str), 1, Len(prefix)) = Chars(prefix)

\* The pattern /api/tables/{tableName}/columns: one non-empty segment.
IsColumnsPath(path) ==
    LET cs == Chars(path)
        head == Chars("/api/tables/")
        tail == Chars("/columns")
        seg == SubSeq(cs, Len(head) + 1, Len(cs) - Len(tail))
    IN /\ Len(cs) > Len(head) + Len(tail)
       /\ SubSeq(cs, 1, Len(head)) = head
       /\ SubSeq(cs, Len(cs) - Len(tail) + 1, Len(cs)) = tail
       /\ \A k \in 1..Len(seg) : seg[k] # "/"

\* The handler apiMux finds for a method and path; none gives 404 or 405.
Route(method, path) ==
    IF method = "GET" /\ path = "/api/schema" THEN "handleGetSchema"
    ELSE IF method = "GET" /\ path = "/api/databases" THEN "handleListDatabases"
    ELSE IF method = "GET" /\ path = "/api/types" THEN "handleGetTypes"
    ELSE IF method = "POST" /\ path = "/api/database" THEN "handleSwitchDatabase"
    ELSE IF method = "POST" /\ path = "/api/tables" THEN "handleCreateTable"
    ELSE IF method = "POST" /\ IsColumnsPath(path) THEN "handleAddColumn"
    ELSE "none"

\* Locals of a request goroutine inside the middleware chain.
ChainLocals(req) == [request |-> req] @@ [NoLocals EXCEPT !.handler = "api"]

\* mux: GET /api/csrf-token goes to handleGetCSRFToken, everything else
\* under /api/ to the protected chain (through LimitBodySize up to the rate
\* limiter), the rest to the file server.
ServeHTTP(r) ==
    /\ At(r, "idle")
    /\ Alone(r)
    /\ \E method \in Methods, path \in Paths, token \in HeaderTokens, ip \in GateAddrs :
          LET req == [Method |-> method, Path |-> path, Token |-> token, RemoteAddr |-> ip]
          IN IF method = "GET" /\ path = "/api/csrf-token"
                THEN /\ RespondAs(r, "handleGetCSRFToken",
                                  [code |-> OK, status |-> 200, token |-> csrf.currentToken,
                                   request |-> req])
                     /\ UNCHANGED loc
                ELSE IF HasPrefix(path, "/api/")
                        THEN /\ loc' = [loc EXCEPT ![r] = ChainLocals(req)]
                             /\ Goto(r, "rateLimiter_Wrap")
                        ELSE /\ RespondAs(r, "FileServer",
                                          [code |-> OK, status |-> 200, request |-> req])
                             /\ UNCHANGED loc
    /\ UNCHANGED <<engineVars, mwVars>>

\* RateLimiter.Wrap: Allow(r.RemoteAddr), 429 or next.ServeHTTP.
RateLimiter_Wrap(r) ==
    /\ At(r, "rateLimiter_Wrap")
    /\ \E out \in Allow(loc[r].request.RemoteAddr) :
          /\ Allowed(loc[r].request.RemoteAddr, out)
          /\ IF out.ok
                THEN Goto(r, "csrf_Wrap") /\ UNCHANGED loc
                ELSE /\ Respond(r, [code |-> "RATE_LIMIT", status |-> 429,
                                    message |-> "Too many requests", request |-> loc[r].request])
                     /\ Return(r)
    /\ UNCHANGED <<engineVars, clock, csrf, issued>>

\* CSRFMiddleware.Wrap validating POST alone.
CSRF_Wrap_PostOnly(r) ==
    /\ At(r, "csrf_Wrap")
    /\ IF loc[r].request.Method = "POST" /\ ~isValidToken(loc[r].request.Token)
          THEN /\ Respond(r, [code |-> "CSRF_ERROR", status |-> 403,
                              message |-> "Invalid or missing CSRF token",
                              request |-> loc[r].request])
               /\ Return(r)
          ELSE Goto(r, "apiMux") /\ UNCHANGED loc
    /\ UNCHANGED <<engineVars, mwVars>>

\* CSRFMiddleware.Wrap: the token check for state-changing methods, 403 or
\* next.ServeHTTP.
CSRF_Wrap(r) ==
    /\ At(r, "csrf_Wrap")
    /\ IF loc[r].request.Method \in StateChanging /\ ~isValidToken(loc[r].request.Token)
          THEN /\ Respond(r, [code |-> "CSRF_ERROR", status |-> 403,
                              message |-> "Invalid or missing CSRF token",
                              request |-> loc[r].request])
               /\ Return(r)
          ELSE Goto(r, "apiMux") /\ UNCHANGED loc
    /\ UNCHANGED <<engineVars, mwVars>>

\* apiMux: the route handler for the method and path runs, or the mux
\* answers 404 / 405 itself.
apiMux(r) ==
    /\ At(r, "apiMux")
    /\ LET h == Route(loc[r].request.Method, loc[r].request.Path)
       IN RespondAs(r, h, [code |-> IF h = "none" THEN "NO_ROUTE" ELSE "HANDLED",
                           request |-> loc[r].request])
    /\ Return(r)
    /\ UNCHANGED <<engineVars, mwVars>>

\* The protected chain with its one client, the token rotation and time.
\* The limiter's cleanup ticker is left to LimiterSpec: it drops timestamps
\* Allow filters out itself, and with one client no entry is ever evicted.
NextGate ==
    \/ Elapse
    \/ rotationLoop
    \/ \E r \in Reqs : ServeHTTP(r)
    \/ \E r \in Reqs : RateLimiter_Wrap(r)
    \/ \E r \in Reqs : CSRF_Wrap(r)
    \/ \E r \in Reqs : apiMux(r)
    \/ Sent

GateSpec == Init /\ [][NextGate]_vars

\* ---------------------------------------------------- gate properties
\* The handlers registered on apiMux.
RouteHandlers == {"handleGetSchema", "handleListDatabases", "handleGetTypes",
                  "handleSwitchDatabase", "handleCreateTable", "handleAddColumn"}

\* A state-changing request under /api/ whose X-CSRF-Token header is missing
\* or is not a token isValidToken accepts.
BadToken(req) ==
    /\ req.Method \in StateChanging
    /\ HasPrefix(req.Path, "/api/")
    /\ ~isValidToken(req.Token)

\* C28 as stated: every POST, PUT, DELETE or PATCH request under /api/ whose
\* X-CSRF-Token header is missing or not valid is answered 403.
C28_BadTokenAnswered403 ==
    [][\A r \in Reqs :
          (/\ pc[r] \in {"rateLimiter_Wrap", "csrf_Wrap"}
           /\ BadToken(loc[r].request)
           /\ pc'[r] = "idle")
              => resp'.req = r /\ resp'.code = "CSRF_ERROR" /\ resp'.status = 403]_vars

\* C28 (amended): a POST, PUT, DELETE or PATCH request under /api/ whose
\* X-CSRF-Token header is missing or not valid is answered 429 by the rate
\* limiter or, once the limiter has let it through, 403 by the CSRF gate; it
\* never reaches apiMux, and only a request that has reached apiMux is given
\* to a route handler.  A GET request passes the gate whatever its token.
C28_BadTokenNeverRouted ==
    [][\A r \in Reqs :
          /\ (pc[r] = "rateLimiter_Wrap" /\ BadToken(loc[r].request))
                => \/ pc'[r] \in {"rateLimiter_Wrap", "csrf_Wrap"}
                   \/ /\ pc'[r] = "idle" /\ resp'.req = r
                      /\ resp'.code = "RATE_LIMIT" /\ resp'.status = 429
          /\ (pc[r] = "csrf_Wrap" /\ BadToken(loc[r].request))
                => \/ pc'[r] = "csrf_Wrap"
                   \/ /\ pc'[r] = "idle" /\ resp'.req = r
                      /\ resp'.code = "CSRF_ERROR" /\ resp'.status = 403
                      /\ resp'.message = "Invalid or missing CSRF token"
          /\ (pc[r] # "apiMux" /\ pc'[r] = "apiMux")
                => pc[r] = "csrf_Wrap" /\ ~BadToken(loc[r].request)
          /\ (resp'.req = r /\ resp'.kind \in RouteHandlers) => pc[r] = "apiMux"
          /\ (pc[r] = "csrf_Wrap" /\ loc[r].request.Method = "GET")
                => pc'[r] \in {"csrf_Wrap", "apiMux"}
          /\ (resp'.req = r /\ resp'.code \in {"RATE_LIMIT", "CSRF_ERROR"})
                => UNCHANGED engineVars]_vars

\* C28 witness: a POST /api/database without the header has been answered
\* 403 by the gate.
C28_Witness ==
    /\ resp.kind = "api" /\ resp.code = "CSRF_ERROR" /\ resp.status = 403
    /\ resp.request.Method = "POST" /\ resp.request.Path = "/api/database"
    /\ resp.request.Token = ""

\* ------------------------------------------------------------ rotation
\* isValidToken called with any header value, between rotations.
CSRF_isValidToken(r) ==
    /\ At(r, "idle")
    /\ Alone(r)
    /\ \E token \in HeaderTokens :
          RespondAs(r, "isValidToken", [code |-> OK, ok |-> isValidToken(token), token |-> token])
    /\ UNCHANGED <<engineVars, loc, mwVars>>

NextRotation ==
    \/ Elapse
    \/ rotationLoop
    \/ \E r \in Reqs : CSRF_isValidToken(r)
    \/ Sent

RotationSpec == Init /\ [][NextRotation]_vars

\* The tokens generated so far, oldest first: the last is the current one,
\* the one before it the previous one, and the last rotation is the time
\* the current one was installed.
Rotations == Len(issued) - 1
TokenAge(token) ==
    IF \E k \in 1..Len(issued) : issued[k].token = token
       THEN Len(issued) - (CHOOSE k \in 1..Len(issued) : issued[k].token = token)
       ELSE -1
SinceLastRotation == clock - issued[Len(issued)].at

\* C29: after any sequence of rotations isValidToken accepts a token exactly
\* when it is the current token, or the immediately previous token while
\* less than the grace period has passed since the last rotation; a token
\* two or more rotations old, a made-up token and a missing one are never
\* accepted.
C29_CurrentOrPreviousInGrace ==
    resp.kind = "isValidToken" =>
        /\ resp.ok <=> \/ TokenAge(resp.token) = 0
                       \/ TokenAge(resp.token) = 1 /\ SinceLastRotation < gracePeriod
        /\ TokenAge(resp.token) >= 2 => ~resp.ok
        /\ TokenAge(resp.token) = -1 => ~resp.ok

\* C29 witness: after two rotations the token of the first rotation is
\* accepted within the grace period of the second.
C29_Witness ==
    /\ Rotations = 2
    /\ resp.kind = "isValidToken" /\ resp.ok
    /\ TokenAge(resp.token) = 1 /\ SinceLastRotation < gracePeriod

\* -------------------------------------------------------------- limiter
\* Allow called for requests of any of the clients, one call at a time.
RateLimiter_Allow(r) ==
    /\ At(r, "idle")
    /\ Alone(r)
    /\ Len(allowLog) < MaxAllowed
    /\ \E ip \in RemoteAddrs : \E out \in Allow(ip) :
          /\ Allowed(ip, out)
          /\ RespondAs(r, "Allow", [code |-> OK, ok |-> out.ok, ip |-> ip])
    /\ UNCHANGED <<engineVars, loc, clock, csrf, issued>>

NextLimiter ==
    \/ Elapse
    \/ cleanup
    \/ \E r \in Reqs : RateLimiter_Allow(r)
    \/ Sent

LimiterSpec == Init /\ [][NextLimiter]_vars

\* Calls from ip that Allow has let through during the window ending now.
AllowedInWindow(ip) == Len(SelectSeq(Recent(allowLog, clock), LAMBDA e : e.ip = ip))

\* C30: for any sequence of Allow calls, cleanups and max-entries evictions,
\* no remote address has been allowed more than limit requests within one
\* window.
C30_AtMostLimitPerWindow ==
    \A ip \in RemoteAddrs : AllowedInWindow(ip) <= limit

====
